---------------------------- MODULE Spec2Model ----------------------------
(***************************************************************************)
(* A model of the treelox tree-walking interpreter: the scanner            *)
(* (src/src/scanner.rs), the parser (src/src/parser.rs), the resolver      *)
(* (src/src/resolver.rs) and the evaluator (src/src/interpreter.rs) with   *)
(* their environments, functions, classes and instances.                   *)
(*                                                                         *)
(* The visitors and the productions are big-step recursive operators, one  *)
(* per method of the source, threading the state of their component        *)
(* through every call.  Shared, mutable objects (Rc<RefCell<..>>) live in  *)
(* heaps indexed by identity: envs, classes, instances.  One action scans  *)
(* one token (the loop of scan_tokens), one parses one declaration (the    *)
(* loop of parse), one resolves one top-level statement (the loop of       *)
(* resolve_stmts), another executes one (the loop of interpret).           *)
(***************************************************************************)
EXTENDS Integers, Sequences, FiniteSets, TLC

VARIABLES input, phase, ip, resolver, interpreter, outcome, scanner, parser,
          parsed

vars == <<input, phase, ip, resolver, interpreter, outcome, scanner, parser,
          parsed>>

(***************************************************************************)
(* Bounds of the model.                                                    *)
(***************************************************************************)
\* numbers used as literal values and arguments: 0..MaxNum
MaxNum == 2
\* source lines on which the tokens of a program are placed: 1..MaxLine
MaxLine == 2
\* number of arguments passed in a call: 0..MaxArgs
MaxArgs == 2
\* length of an inheritance chain below the root class: 0..MaxChain
MaxChain == 2
\* values the wall clock may return: 0..MaxClock
MaxClock == 1
\* number of nested blocks around a reference: 1..MaxDepth
MaxDepth == 3
\* number of characters of a scanned source: 0..MaxSource
MaxSource == 3
\* number of logical operators in a parsed expression: 1..MaxOps
MaxOps == 2
\* number of statements in a parsed token list: 1..MaxStatements
MaxStatements == 3
\* number of pieces of a script that is run: 0..MaxRun
MaxRun == 4
\* the count the parser compares the length of an argument list and of a
\* parameter list with
ListLimit == 255

(***************************************************************************)
(* Maps (HashMap): functions with a finite domain.                         *)
(***************************************************************************)
EmptyMap == [k \in {} |-> TRUE]

Put(m, k, v) == [y \in DOMAIN m \cup {k} |-> IF y = k THEN v ELSE m[y]]

Has(m, k) == k \in DOMAIN m

(***************************************************************************)
(* Tokens.  The literal payload of a token is a function of its type and   *)
(* lexeme, so a token is modelled by type, lexeme and line.  Two tokens    *)
(* are equal as map keys (derived PartialEq, Eq) when all fields agree.    *)
(***************************************************************************)
Token(type, lexeme, line) == [type |-> type, lexeme |-> lexeme, line |-> line]

Identifier(lexeme, line) == Token("Identifier", lexeme, line)

NoToken == Token("Eof", "", 0)

(***************************************************************************)
(* Objects (runtime values).                                               *)
(***************************************************************************)
Nil == [t |-> "nil"]

Bool(b) == [t |-> "bool", b |-> b]

Number(n) == [t |-> "number", n |-> n]

String(s) == [t |-> "string", s |-> s]

ClassObject(id) == [t |-> "class", class |-> id]

InstanceObject(id) == [t |-> "instance", instance |-> id]

NativeFunction(arity) == [t |-> "callable", native |-> TRUE, arity |-> arity]

UserFunction(name, params, body, closure, is_initializer) ==
    [t |-> "callable", native |-> FALSE, name |-> name, params |-> params,
     body |-> body, closure |-> closure, is_initializer |-> is_initializer]

is_truthy(o) == ~(o.t = "nil" \/ (o.t = "bool" /\ ~o.b))

\* PartialEq for Object: only nil, booleans, numbers and strings compare equal
ObjectEq(a, b) ==
    \/ a.t = "nil" /\ b.t = "nil"
    \/ a.t = "bool" /\ b.t = "bool" /\ a.b = b.b
    \/ a.t = "number" /\ b.t = "number" /\ a.n = b.n
    \/ a.t = "string" /\ b.t = "string" /\ a.s = b.s

(***************************************************************************)
(* Results of a visitor: Ok(value), Err(Error::Runtime), Err(Error::Return)*)
(* or a panic (the process aborts).  Every result carries the state the    *)
(* visitor left behind.                                                    *)
(***************************************************************************)
Result(r, st, v, token, message) ==
    [r |-> r, st |-> st, v |-> v, token |-> token, message |-> message]

Message(text, args) == [text |-> text, args |-> args]

Ok(st, v) == Result("ok", st, v, NoToken, Message("", <<>>))

Runtime(st, token, message) == Result("runtime", st, Nil, token, message)

Return(st, v) == Result("return", st, v, NoToken, Message("", <<>>))

Panic(st, text) == Result("panic", st, Nil, NoToken, Message(text, <<>>))

\* the `?` operator: a result that is not Ok leaves the visitor at once
Failed(res) == res.r # "ok"

\* `let x = value; body`
With(value, Body(_)) == Body(value)

\* `let x = expr?; body`: an error leaves the visitor, else the body runs
Try(res, Body(_)) == IF res.r # "ok" THEN res ELSE Body(res)

(***************************************************************************)
(* Environment (src/src/environment.rs).  st.envs is the heap of           *)
(* environments; an environment is named by its index, 0 is None.          *)
(***************************************************************************)
Environment_new == [enclosing |-> 0, values |-> EmptyMap]

Environment_from(enclosing) == [enclosing |-> enclosing, values |-> EmptyMap]

\* Rc::new(RefCell::new(env)): allocate env, its identity is Len(envs) + 1
AllocEnv(st, env) == [st EXCEPT !.envs = Append(@, env)]

NewEnvId(st) == Len(st.envs) + 1

Environment_define(st, env, name, value) ==
    [st EXCEPT !.envs[env].values = Put(@, name, value)]

RECURSIVE Environment_get(_, _, _)
Environment_get(st, env, name) ==
    IF Has(st.envs[env].values, name.lexeme)
    THEN Ok(st, st.envs[env].values[name.lexeme])
    ELSE IF st.envs[env].enclosing # 0
    THEN Environment_get(st, st.envs[env].enclosing, name)
    ELSE Runtime(st, name, Message("Undefined variable '{}'.", <<name.lexeme>>))

RECURSIVE Environment_assign(_, _, _, _)
Environment_assign(st, env, name, value) ==
    IF Has(st.envs[env].values, name.lexeme)
    THEN Ok([st EXCEPT !.envs[env].values = Put(@, name.lexeme, value)], Nil)
    ELSE IF st.envs[env].enclosing # 0
    THEN Environment_assign(st, st.envs[env].enclosing, name, value)
    ELSE Runtime(st, name, Message("Undefined variable '{}'.", <<name.lexeme>>))

\* the loop `for i in 1..distance` of ancestor: 0 when a parent is missing
RECURSIVE AncestorFrom(_, _, _)
AncestorFrom(st, env, links) ==
    IF links = 0 THEN env
    ELSE IF st.envs[env].enclosing = 0 THEN 0
    ELSE AncestorFrom(st, st.envs[env].enclosing, links - 1)

\* ancestor(distance), called with distance > 0 only; 0 models the panic
\* "No enclosing environment"
ancestor(st, env, distance) ==
    IF st.envs[env].enclosing = 0 THEN 0
    ELSE AncestorFrom(st, st.envs[env].enclosing, distance - 1)

get_at(st, env, distance, name) ==
    With(IF distance > 0 THEN ancestor(st, env, distance) ELSE env, LAMBDA target:
        IF target = 0 THEN Panic(st, "No enclosing environment")
        ELSE IF Has(st.envs[target].values, name)
        THEN Ok(st, st.envs[target].values[name])
        ELSE Panic(st, "Undefined variable"))

assign_at(st, env, distance, name, value) ==
    With(IF distance > 0 THEN ancestor(st, env, distance) ELSE env, LAMBDA target:
        IF target = 0 THEN Panic(st, "No enclosing environment")
        ELSE Ok([st EXCEPT !.envs[target].values = Put(@, name.lexeme, value)], Nil))

(***************************************************************************)
(* Interpreter state (src/src/interpreter.rs, struct Interpreter) with the *)
(* heaps of the shared objects it reaches:                                 *)
(*   envs         the environments (Rc<RefCell<Environment>>)              *)
(*   classes      the classes (Rc<RefCell<Class>>)                         *)
(*   instances    the instances (Rc<RefCell<Instance>>)                    *)
(*   globals      the global environment                                   *)
(*   environment  the current environment                                  *)
(*   locals       the sidecar map Token -> depth                           *)
(*   printed      the values handed to println!, in order                  *)
(*   now          what the wall clock answers during the current step      *)
(*   frames       history: one record per finished execute_block and       *)
(*                class declaration (environment before and after)         *)
(***************************************************************************)
Interpreter_default ==
    [envs |-> <<[enclosing |-> 0,
                 values |-> Put(EmptyMap, "clock", NativeFunction(0))]>>,
     classes |-> <<>>,
     instances |-> <<>>,
     globals |-> 1,
     environment |-> 1,
     locals |-> EmptyMap,
     printed |-> <<>>,
     now |-> 0,
     frames |-> <<>>]

(***************************************************************************)
(* Class and Instance (src/src/class.rs).                                  *)
(***************************************************************************)
NoMethod == [found |-> FALSE]

\* find_method: a lookup in the class's own method table
find_method(st, class, name) ==
    IF Has(st.classes[class].methods, name)
    THEN [found |-> TRUE, method |-> st.classes[class].methods[name]]
    ELSE NoMethod

\* Instance::new: a fresh instance of the class with no fields
Instance_new(st, class) ==
    [st EXCEPT !.instances = Append(@, [class |-> class, fields |-> EmptyMap])]

NewInstanceId(st) == Len(st.instances) + 1

\* Function::bind: a copy of the method whose closure is a fresh environment
\* that defines "this" and encloses the method's closure
bind(st, function, instance) ==
    [st |-> Environment_define(AllocEnv(st, Environment_from(function.closure)),
                               NewEnvId(st), "this", instance),
     function |-> [function EXCEPT !.closure = NewEnvId(st)]]

\* Ok(Object::Callable(method.bind(instance)))
BoundMethod(b) == Ok(b.st, b.function)

\* Instance::get: the field stored under the token `name`, else the method
Instance_get(st, instance, name, object) ==
    IF Has(st.instances[instance].fields, name)
    THEN Ok(st, st.instances[instance].fields[name])
    ELSE IF find_method(st, st.instances[instance].class, name.lexeme).found
    THEN BoundMethod(bind(st,
                          find_method(st, st.instances[instance].class,
                                      name.lexeme).method,
                          object))
    ELSE Runtime(st, name, Message("Undefined property '{}'.", <<name.lexeme>>))

\* Instance::set: fields.insert(name.clone(), value), keyed by the token
Instance_set(st, instance, name, value) ==
    [st EXCEPT !.instances[instance].fields = Put(@, name, value)]

\* Function::arity
arity(function) ==
    IF function.native THEN function.arity ELSE Len(function.params)

(***************************************************************************)
(* The evaluator's visitors (src/src/interpreter.rs) and Function::call    *)
(* (src/src/function.rs).                                                  *)
(***************************************************************************)
RECURSIVE evaluate(_, _), execute(_, _), execute_statements(_, _, _)
RECURSIVE execute_block(_, _, _), Function_call(_, _, _)
RECURSIVE evaluate_arguments(_, _, _, _), while_loop(_, _, _)
RECURSIVE visit_binary_expr(_, _, _, _), visit_unary_expr(_, _, _)
RECURSIVE visit_assign_expr(_, _, _), visit_logical_expr(_, _, _, _)
RECURSIVE visit_call_expr(_, _, _, _), visit_get_expr(_, _, _)
RECURSIVE visit_set_expr(_, _, _, _), visit_class_stmt(_, _, _, _)

\* look_up_variable with the unresolved name looked up from the current
\* environment (dynamic scoping) instead of the globals
look_up_variable_dynamic(st, name) ==
    IF Has(st.locals, name)
    THEN get_at(st, st.environment, st.locals[name], name.lexeme)
    ELSE Environment_get(st, st.environment, name)

look_up_variable(st, name) ==
    IF Has(st.locals, name)
    THEN get_at(st, st.environment, st.locals[name], name.lexeme)
    ELSE Environment_get(st, st.globals, name)

\* the body of the loop `for statement in statements { execute(statement)? }`
execute_statements(statements, i, st) ==
    IF i > Len(statements) THEN Ok(st, Nil)
    ELSE Try(execute(statements[i], st), LAMBDA res:
             execute_statements(statements, i + 1, res.st))

Frame(kind, before, res) ==
    [kind |-> kind, before |-> before, after |-> res.st.environment, r |-> res.r]

LogFrame(kind, before, res) ==
    [res EXCEPT !.st.frames = Append(@, Frame(kind, before, res))]

\* the end of execute_block without `self.environment = previous` when
\* the statements returned an error
BlockLeft_leaky(previous, result) ==
    IF result.r = "panic" THEN result
    ELSE IF result.r = "ok"
    THEN LogFrame("block", previous, [result EXCEPT !.st.environment = previous])
    ELSE LogFrame("block", previous, result)

\* the end of execute_block: `self.environment = previous; result`
BlockLeft(previous, result) ==
    IF result.r = "panic" THEN result
    ELSE LogFrame("block", previous, [result EXCEPT !.st.environment = previous])

\* execute_block: the environment is swapped, the statements run, and the
\* previous environment is put back whatever the statements returned; a
\* panic unwinds the whole process instead
execute_block(statements, environment, st) ==
    BlockLeft(st.environment,
              execute_statements(statements, 1,
                                 [st EXCEPT !.environment = environment]))

\* params.iter().zip(arguments.iter()): define each parameter
RECURSIVE DefineParams(_, _, _, _, _)
DefineParams(st, env, params, arguments, i) ==
    IF i > Len(params) \/ i > Len(arguments) THEN st
    ELSE DefineParams(Environment_define(st, env, params[i].lexeme, arguments[i]),
                      env, params, arguments, i + 1)

\* the match of Function::call with an initializer treated as any other
\* function
Returned_plain(function, res) ==
    CASE res.r = "return" -> Ok(res.st, res.v)
      [] res.r = "ok" -> Ok(res.st, Nil)
      [] OTHER -> res

\* the match of Function::call on the result of execute_block
Returned(function, res) ==
    CASE res.r = "return" ->
           IF function.is_initializer
           THEN get_at(res.st, function.closure, 0, "this")
           ELSE Ok(res.st, res.v)
      [] res.r = "ok" ->
           IF function.is_initializer
           THEN get_at(res.st, function.closure, 0, "this")
           ELSE Ok(res.st, Nil)
      [] OTHER -> res

\* Function::call
Function_call(function, st, arguments) ==
    IF function.native THEN Ok(st, Number(st.now))
    ELSE Returned(function,
                  execute_block(function.body, NewEnvId(st),
                                DefineParams(AllocEnv(st, Environment_from(function.closure)),
                                             NewEnvId(st), function.params,
                                             arguments, 1)))

BinaryMessage(operator) ==
    IF operator.type \in {"Minus", "Slash", "Star", "Greater", "GreaterEqual",
                          "Less", "LessEqual"}
    THEN Message("Operands must be numbers.", <<>>)
    ELSE IF operator.type = "Plus"
    THEN Message("Operands must be two numbers or two strings.", <<>>)
    ELSE Message("Invalid expression error.", <<>>)

\* the exact quotient; the programs of the model divide only exactly
Quotient(a, b) == CHOOSE q \in -a .. a : q * b = a

\* the arms of the match of visit_binary_expr; nums: both are numbers
BinaryArms(st, left, operator, op, right, nums) ==
    CASE nums /\ op = "Minus" -> Ok(st, Number(left.n - right.n))
      [] nums /\ op = "Slash" /\ right.n = 0 ->
            Runtime(st, operator, Message("Zero division error.", <<left.n>>))
      [] nums /\ op = "Slash" /\ right.n # 0 ->
            Ok(st, Number(Quotient(left.n, right.n)))
      [] nums /\ op = "Star" -> Ok(st, Number(left.n * right.n))
      [] nums /\ op = "Plus" -> Ok(st, Number(left.n + right.n))
      [] left.t = "string" /\ right.t = "string" /\ op = "Plus" ->
            Ok(st, String(left.s \o right.s))
      [] nums /\ op = "Greater" -> Ok(st, Bool(left.n > right.n))
      [] nums /\ op = "GreaterEqual" -> Ok(st, Bool(left.n >= right.n))
      [] nums /\ op = "Less" -> Ok(st, Bool(left.n < right.n))
      [] nums /\ op = "LessEqual" -> Ok(st, Bool(left.n <= right.n))
      [] op = "BangEqual" -> Ok(st, Bool(~ObjectEq(left, right)))
      [] op = "EqualEqual" -> Ok(st, Bool(ObjectEq(left, right)))
      [] OTHER -> Runtime(st, operator, BinaryMessage(operator))

\* the match of visit_binary_expr on (left, operator, right)
BinaryOp(st, left, operator, right) ==
    BinaryArms(st, left, operator, operator.type, right,
               left.t = "number" /\ right.t = "number")

\* unwrap_or_else(|_| panic!(text)) of the result of an operand
Unwrap(res, text) ==
    IF res.r = "panic" \/ ~Failed(res) THEN res ELSE Panic(res.st, text)

\* both operands are unwrapped with unwrap_or_else(panic!)
visit_binary_expr(left, operator, right, st) ==
    Try(Unwrap(evaluate(left, st), "Could not evaluate left expr"), LAMBDA l:
    Try(Unwrap(evaluate(right, l.st), "Could not evaluate right expr"), LAMBDA r:
        BinaryOp(r.st, l.v, operator, r.v)))

visit_unary_expr(operator, right, st) ==
    Try(evaluate(right, st), LAMBDA r:
        IF operator.type = "Minus" /\ r.v.t = "number"
        THEN Ok(r.st, Number(0 - r.v.n))
        ELSE IF operator.type = "Bang"
        THEN Ok(r.st, Bool(~is_truthy(r.v)))
        ELSE Runtime(r.st, operator, Message("invalid unary expr", <<>>)))

visit_assign_expr(name, value, st) ==
    Try(evaluate(value, st), LAMBDA v:
    Try(IF Has(v.st.locals, name)
        THEN assign_at(v.st, v.st.environment, v.st.locals[name], name, v.v)
        ELSE Environment_assign(v.st, v.st.environment, name, v.v), LAMBDA a:
        Ok(a.st, v.v)))

\* visit_logical_expr with both operands evaluated before the test
visit_logical_expr_eager(left, operator, right, st) ==
    Try(evaluate(left, st), LAMBDA l:
    Try(evaluate(right, l.st), LAMBDA r:
        IF operator.type = "Or" /\ is_truthy(l.v) THEN Ok(r.st, l.v)
        ELSE IF operator.type # "Or" /\ ~is_truthy(l.v) THEN Ok(r.st, l.v)
        ELSE r))

visit_logical_expr(left, operator, right, st) ==
    Try(evaluate(left, st), LAMBDA l:
        IF operator.type = "Or" /\ is_truthy(l.v) THEN l
        ELSE IF operator.type # "Or" /\ ~is_truthy(l.v) THEN l
        ELSE evaluate(right, l.st))

\* the loop `for argument in arguments { args.push(evaluate(argument)?) }`
evaluate_arguments(arguments, i, args, st) ==
    IF i > Len(arguments) THEN Ok(st, args)
    ELSE Try(evaluate(arguments[i], st), LAMBDA a:
             evaluate_arguments(arguments, i + 1, Append(args, a.v), a.st))

ArityMessage(expected, got) ==
    Message("Expected {} arguments but got {}.", <<expected, got>>)

\* the Object::Callable arm with the arity test `arg_count < function.arity()`
CallCallable_atleast(function, paren, args, st) ==
    IF Len(args) < arity(function)
    THEN Runtime(st, paren, ArityMessage(arity(function), Len(args)))
    ELSE Function_call(function, st, args)

\* the Object::Callable arm of visit_call_expr
CallCallable(function, paren, args, st) ==
    IF Len(args) # arity(function)
    THEN Runtime(st, paren, ArityMessage(arity(function), Len(args)))
    ELSE Function_call(function, st, args)

\* the initializer found by the Object::Class arm runs on the new instance
CallInitializer(initializer, instance, paren, args, st) ==
    IF Len(args) # arity(initializer)
    THEN Runtime(st, paren, ArityMessage(arity(initializer), Len(args)))
    ELSE With(bind(st, initializer, instance), LAMBDA b:
         Try(Function_call(b.function, b.st, args), LAMBDA res:
             Ok(res.st, instance)))

\* the Object::Class arm of visit_call_expr
CallClass(class, paren, args, st) ==
    IF find_method(st, class, "init").found
    THEN CallInitializer(find_method(st, class, "init").method,
                         InstanceObject(NewInstanceId(st)), paren, args,
                         Instance_new(st, class))
    ELSE Ok(Instance_new(st, class), InstanceObject(NewInstanceId(st)))

visit_call_expr(callee, paren, arguments, st) ==
    Try(evaluate(callee, st), LAMBDA c:
    Try(evaluate_arguments(arguments, 1, <<>>, c.st), LAMBDA a:
        CASE c.v.t = "callable" -> CallCallable(c.v, paren, a.v, a.st)
          [] c.v.t = "class" -> CallClass(c.v.class, paren, a.v, a.st)
          [] OTHER ->
               Runtime(a.st, paren,
                       Message("Can only call functions and classes.", <<>>))))

visit_get_expr(object, name, st) ==
    Try(evaluate(object, st), LAMBDA o:
        IF o.v.t = "instance"
        THEN Instance_get(o.st, o.v.instance, name, o.v)
        ELSE Runtime(o.st, name, Message("Only instances have properties.", <<>>)))

visit_set_expr(object, name, value, st) ==
    Try(evaluate(object, st), LAMBDA o:
        IF o.v.t = "instance"
        THEN Try(evaluate(value, o.st), LAMBDA v:
                 Ok(Instance_set(v.st, o.v.instance, name, v.v),
                    InstanceObject(o.v.instance)))
        ELSE Runtime(o.st, name, Message("Only instances have fields.", <<>>)))

visit_this_expr(keyword, st) == look_up_variable(st, keyword)

\* the method looked up on the superclass and bound to the instance
SuperMethod(st, superclass, instance, method) ==
    IF superclass.t # "class" THEN Panic(st, "unreachable")
    ELSE IF find_method(st, superclass.class, method.lexeme).found
    THEN BoundMethod(bind(st, find_method(st, superclass.class, method.lexeme).method,
                          instance))
    ELSE Runtime(st, method, Message("Undefined property '{}'.", <<method.lexeme>>))

visit_super_expr(keyword, method, st) ==
    IF ~Has(st.locals, keyword) THEN Panic(st, "No local distance for 'super'.")
    ELSE Try(get_at(st, st.environment, st.locals[keyword], "super"),
             LAMBDA superclass:
                 IF st.locals[keyword] = 0
                 THEN Panic(st, "attempt to subtract with overflow")
                 ELSE Try(get_at(st, st.environment, st.locals[keyword] - 1, "this"),
                          LAMBDA instance:
                              SuperMethod(st, superclass.v, instance.v, method)))

\* Expr::accept (src/src/expr.rs)
evaluate(expression, st) ==
    CASE expression.k = "Assign" ->
            visit_assign_expr(expression.name, expression.value, st)
      [] expression.k = "Binary" ->
            visit_binary_expr(expression.left, expression.operator,
                              expression.right, st)
      [] expression.k = "Grouping" -> evaluate(expression.expr, st)
      [] expression.k = "Literal" -> Ok(st, expression.value)
      [] expression.k = "Unary" ->
            visit_unary_expr(expression.operator, expression.right, st)
      [] expression.k = "Variable" -> look_up_variable(st, expression.name)
      [] expression.k = "Logical" ->
            visit_logical_expr(expression.left, expression.operator,
                               expression.right, st)
      [] expression.k = "Call" ->
            visit_call_expr(expression.callee, expression.paren,
                            expression.arguments, st)
      [] expression.k = "Get" -> visit_get_expr(expression.object, expression.name, st)
      [] expression.k = "Set" ->
            visit_set_expr(expression.object, expression.name, expression.value, st)
      [] expression.k = "This" -> visit_this_expr(expression.keyword, st)
      [] expression.k = "Super" ->
            visit_super_expr(expression.keyword, expression.method, st)

visit_block_stmt(statements, st) ==
    execute_block(statements, NewEnvId(st),
                  AllocEnv(st, Environment_from(st.environment)))

visit_expression_stmt(expression, st) ==
    Try(evaluate(expression, st), LAMBDA v: Ok(v.st, Nil))

visit_print_stmt(expression, st) ==
    Try(evaluate(expression, st), LAMBDA v:
        Ok([v.st EXCEPT !.printed = Append(@, v.v)], Nil))

\* initializer is [k |-> "None"] for a declaration without one
visit_var_stmt(name, initializer, st) ==
    Try(IF initializer.k = "None" THEN Ok(st, Nil) ELSE evaluate(initializer, st),
        LAMBDA v:
            Ok(Environment_define(v.st, v.st.environment, name.lexeme, v.v), Nil))

\* is_ok_and: an error of the condition counts as a false condition
visit_if_stmt(condition, then_branch, else_branch, st) ==
    With(evaluate(condition, st), LAMBDA c:
        IF c.r = "panic" THEN c
        ELSE IF c.r = "ok" /\ is_truthy(c.v) THEN execute(then_branch, c.st)
        ELSE IF else_branch.k # "None" THEN execute(else_branch, c.st)
        ELSE Ok(c.st, Nil))

while_loop(condition, body, st) ==
    With(evaluate(condition, st), LAMBDA c:
        IF c.r = "panic" THEN c
        ELSE IF c.r = "ok" /\ is_truthy(c.v)
        THEN Try(execute(body, c.st), LAMBDA b: while_loop(condition, body, b.st))
        ELSE Ok(c.st, Nil))

visit_while_stmt(condition, body, st) == while_loop(condition, body, st)

\* visit_function_stmt with the closure a copy of the current environment
visit_function_stmt_copy(name, params, body, st) ==
    Ok(Environment_define(AllocEnv(st, st.envs[st.environment]), st.environment,
                          name.lexeme,
                          UserFunction(name, params, body, NewEnvId(st), FALSE)),
       Nil)

visit_function_stmt(name, params, body, st) ==
    Ok(Environment_define(st, st.environment, name.lexeme,
                          UserFunction(name, params, body, st.environment, FALSE)),
       Nil)

visit_return_stmt(keyword, value, st) ==
    Try(IF value.k = "None" THEN Ok(st, Nil) ELSE evaluate(value, st),
        LAMBDA v: Return(v.st, v.v))

\* the loop over the methods of visit_class_stmt
RECURSIVE ClassMethods(_, _, _, _)
ClassMethods(methods, i, closure, class_methods) ==
    IF i > Len(methods) THEN class_methods
    ELSE ClassMethods(methods, i + 1, closure,
                      Put(class_methods, methods[i].name.lexeme,
                          UserFunction(methods[i].name, methods[i].params,
                                       methods[i].body, closure,
                                       methods[i].name.lexeme = "init")))

\* the evaluation of the superclass expression of visit_class_stmt
EvaluateSuperclass(superclass, st) ==
    IF superclass.k = "None" THEN Ok(st, Nil)
    ELSE Try(evaluate(superclass, st), LAMBDA s:
             IF s.v.t = "class" THEN s
             ELSE IF superclass.k = "Variable"
             THEN Runtime(s.st, superclass.name,
                          Message("Superclass must be a class.", <<>>))
             ELSE Panic(s.st, "unreachable"))

\* with a superclass, the methods close over a fresh environment that
\* defines "super"
SuperEnvironment(st, has_super, superclass) ==
    IF has_super
    THEN Environment_define([AllocEnv(st, Environment_from(st.environment))
                                EXCEPT !.environment = NewEnvId(st)],
                            NewEnvId(st), "super", superclass)
    ELSE st

\* the class is built from its methods; the environment of "super" is left
ClassCreated(st, has_super, lox_class) ==
    [st EXCEPT !.classes = Append(@, lox_class),
               !.environment = IF has_super
                               THEN st.envs[st.environment].enclosing
                               ELSE st.environment]

\* visit_class_stmt from the definition of the name on
DeclareClass(name, has_super, superclass, methods, st) ==
    With(SuperEnvironment(Environment_define(st, st.environment, name.lexeme, Nil),
                          has_super, superclass),
         LAMBDA st2:
    With(ClassCreated(st2, has_super,
                      [name |-> name.lexeme,
                       superclass |-> IF has_super THEN superclass.class ELSE 0,
                       methods |-> ClassMethods(methods, 1, st2.environment,
                                                EmptyMap)]),
         LAMBDA st4:
             Environment_assign(st4, st4.environment, name,
                                ClassObject(Len(st4.classes)))))

visit_class_stmt(name, superclass, methods, st) ==
    With(EvaluateSuperclass(superclass, st), LAMBDA s:
        IF s.r = "panic" THEN s
        ELSE IF Failed(s) THEN LogFrame("class", st.environment, s)
        ELSE LogFrame("class", st.environment,
                      DeclareClass(name, superclass.k # "None", s.v, methods, s.st)))

\* Stmt::accept (src/src/stmt.rs)
execute(statement, st) ==
    CASE statement.k = "Block" -> visit_block_stmt(statement.statements, st)
      [] statement.k = "Expression" -> visit_expression_stmt(statement.expr, st)
      [] statement.k = "Print" -> visit_print_stmt(statement.expr, st)
      [] statement.k = "Var" ->
            visit_var_stmt(statement.name, statement.initializer, st)
      [] statement.k = "If" ->
            visit_if_stmt(statement.condition, statement.then_branch,
                          statement.else_branch, st)
      [] statement.k = "While" -> visit_while_stmt(statement.condition, statement.body, st)
      [] statement.k = "Function" ->
            visit_function_stmt(statement.name, statement.params, statement.body, st)
      [] statement.k = "Return" -> visit_return_stmt(statement.keyword, statement.value, st)
      [] statement.k = "Class" ->
            visit_class_stmt(statement.name, statement.superclass,
                             statement.methods, st)

(***************************************************************************)
(* Resolver (src/src/resolver.rs).  Its state:                             *)
(*   scopes            the stack of scopes, each a map name -> defined?    *)
(*   current_function  None, Function, Initializer or Method               *)
(*   current_class     None, Class or Subclass                             *)
(*   had_error         set by every diagnostic                             *)
(*   locals            the interpreter's sidecar map, which the resolver   *)
(*                     writes through its &mut Interpreter                 *)
(*   errors            the diagnostics reported, in order                  *)
(*   sites             history: one record per call of resolve_local       *)
(* No visitor of the resolver returns an error, so each yields the state.  *)
(***************************************************************************)
Resolver_new(locals) ==
    [scopes |-> <<>>,
     current_function |-> "None",
     current_class |-> "None",
     had_error |-> FALSE,
     locals |-> locals,
     errors |-> <<>>,
     sites |-> <<>>]

Resolver_error(rs, token, message) ==
    [rs EXCEPT !.errors = Append(@, [token |-> token, message |-> message]),
               !.had_error = TRUE]

begin_scope(rs) == [rs EXCEPT !.scopes = Append(@, EmptyMap)]

end_scope(rs) ==
    IF rs.scopes = <<>> THEN rs
    ELSE [rs EXCEPT !.scopes = SubSeq(@, 1, Len(@) - 1)]

\* scopes.last_mut().insert(name, flag), which the callers guard or expect
InsertLast(rs, name, flag) ==
    [rs EXCEPT !.scopes[Len(rs.scopes)] = Put(@, name, flag)]

declare(rs, name) ==
    IF rs.scopes = <<>> THEN rs
    ELSE IF Has(rs.scopes[Len(rs.scopes)], name.lexeme)
    THEN Resolver_error(InsertLast(rs, name.lexeme, FALSE), name,
                        "Variable with this name already declared in scope.")
    ELSE InsertLast(rs, name.lexeme, FALSE)

Resolver_define(rs, name) ==
    IF rs.scopes = <<>> THEN rs ELSE InsertLast(rs, name.lexeme, TRUE)

\* Interpreter::resolve (src/src/interpreter.rs): locals.insert(name, depth)
resolve(locals, name, depth) == Put(locals, name, depth)

\* the loop of resolve_local over scopes.iter().rev().enumerate(), from i on
RECURSIVE ResolveLocalLoop(_, _, _)
ResolveLocalLoop(rs, name, i) ==
    IF i >= Len(rs.scopes) THEN rs
    ELSE IF Has(rs.scopes[Len(rs.scopes) - i], name.lexeme)
    THEN ResolveLocalLoop([rs EXCEPT !.locals = resolve(@, name, i)], name, i + 1)
    ELSE ResolveLocalLoop(rs, name, i + 1)

\* history: the token, the scope stack it was resolved against, and the
\* sidecar map before and after the call
LogSite(rs, name, after) ==
    [after EXCEPT !.sites = Append(@, [name |-> name, scopes |-> rs.scopes,
                                       before |-> rs.locals,
                                       after |-> after.locals])]

resolve_local(rs, name) == LogSite(rs, name, ResolveLocalLoop(rs, name, 0))

\* the statements of a visitor run in sequence: rs is evaluated before Body
\* is applied to it (the value is Body(rs))
Then(rs, Body(_)) == IF rs = rs THEN Body(rs) ELSE rs

RECURSIVE resolve_stmt(_, _), resolve_expr(_, _), resolve_stmts(_, _, _)
RECURSIVE resolve_exprs(_, _, _), resolve_function(_, _, _, _)
RECURSIVE ResolveMethods(_, _, _)

\* the loop of resolve_stmts, from statement i on
resolve_stmts(rs, statements, i) ==
    IF i > Len(statements) THEN rs
    ELSE Then(resolve_stmt(rs, statements[i]), LAMBDA rs1:
             resolve_stmts(rs1, statements, i + 1))

\* the loop over the arguments in the resolver's visit_call_expr
resolve_exprs(rs, expressions, i) ==
    IF i > Len(expressions) THEN rs
    ELSE Then(resolve_expr(rs, expressions[i]), LAMBDA rs1:
             resolve_exprs(rs1, expressions, i + 1))

\* the loop over the parameters in resolve_function
RECURSIVE DeclareParams(_, _, _)
DeclareParams(rs, params, i) ==
    IF i > Len(params) THEN rs
    ELSE Then(Resolver_define(declare(rs, params[i]), params[i]), LAMBDA rs1:
             DeclareParams(rs1, params, i + 1))

\* resolve_function leaving the function kind of the body in place
resolve_function_unrestored(rs, params, body, function_type) ==
    end_scope(resolve_stmts(
        DeclareParams(begin_scope([rs EXCEPT !.current_function = function_type]),
                      params, 1),
        body, 1))

resolve_function(rs, params, body, function_type) ==
    [end_scope(resolve_stmts(
         DeclareParams(begin_scope([rs EXCEPT !.current_function = function_type]),
                       params, 1),
         body, 1))
       EXCEPT !.current_function = rs.current_function]

\* visit_variable_expr without the check of the defined? flag
Resolver_visit_variable_expr_unchecked(rs, name) == resolve_local(rs, name)

Resolver_visit_variable_expr(rs, name) ==
    resolve_local(IF /\ rs.scopes # <<>>
                     /\ Has(rs.scopes[Len(rs.scopes)], name.lexeme)
                     /\ ~rs.scopes[Len(rs.scopes)][name.lexeme]
                  THEN Resolver_error(rs, name,
                                      "Cannot read local variable in its own initializer.")
                  ELSE rs,
                  name)

Resolver_visit_this_expr(rs, keyword) ==
    IF rs.current_class = "None"
    THEN Resolver_error(rs, keyword, "Cannot use 'this' outside of a class.")
    ELSE resolve_local(rs, keyword)

Resolver_visit_super_expr(rs, keyword) ==
    IF rs.current_class = "None"
    THEN Resolver_error(rs, keyword, "Cannot use 'super' outside of a class.")
    ELSE IF rs.current_class = "Class"
    THEN Resolver_error(rs, keyword,
                        "Cannot use 'super' in a class with no superclass.")
    ELSE resolve_local(rs, keyword)

\* Expr::accept with the resolver as the visitor
resolve_expr(rs, expression) ==
    CASE expression.k = "Assign" ->
            resolve_local(resolve_expr(rs, expression.value), expression.name)
      [] expression.k = "Binary" ->
            resolve_expr(resolve_expr(rs, expression.left), expression.right)
      [] expression.k = "Grouping" -> resolve_expr(rs, expression.expr)
      [] expression.k = "Literal" -> rs
      [] expression.k = "Unary" -> resolve_expr(rs, expression.right)
      [] expression.k = "Variable" -> Resolver_visit_variable_expr(rs, expression.name)
      [] expression.k = "Logical" ->
            resolve_expr(resolve_expr(rs, expression.left), expression.right)
      [] expression.k = "Call" ->
            resolve_exprs(resolve_expr(rs, expression.callee),
                          expression.arguments, 1)
      [] expression.k = "Get" -> resolve_expr(rs, expression.object)
      [] expression.k = "Set" ->
            resolve_expr(resolve_expr(rs, expression.value), expression.object)
      [] expression.k = "This" -> Resolver_visit_this_expr(rs, expression.keyword)
      [] expression.k = "Super" -> Resolver_visit_super_expr(rs, expression.keyword)

Resolver_visit_block_stmt(rs, statements) ==
    end_scope(resolve_stmts(begin_scope(rs), statements, 1))

Resolver_visit_function_stmt(rs, name, params, body) ==
    resolve_function(Resolver_define(declare(rs, name), name), params, body,
                     "Function")

Resolver_visit_if_stmt(rs, condition, then_branch, else_branch) ==
    IF else_branch.k # "None"
    THEN resolve_stmt(resolve_stmt(resolve_expr(rs, condition), then_branch),
                      else_branch)
    ELSE resolve_stmt(resolve_expr(rs, condition), then_branch)

\* the checks of the resolver's visit_return_stmt before the value is resolved
ReturnChecked(rs, keyword) ==
    IF rs.current_function = "None"
    THEN Resolver_error(rs, keyword, "Cannot return from top-level code.")
    ELSE rs

Resolver_visit_return_stmt(rs, keyword, value) ==
    IF value.k = "None" THEN ReturnChecked(rs, keyword)
    ELSE resolve_expr(IF rs.current_function = "Initializer"
                      THEN Resolver_error(ReturnChecked(rs, keyword), keyword,
                                          "Cannot return value from initializer.")
                      ELSE ReturnChecked(rs, keyword),
                      value)

Resolver_visit_var_stmt(rs, name, initializer) ==
    Resolver_define(IF initializer.k # "None"
                    THEN resolve_expr(declare(rs, name), initializer)
                    ELSE declare(rs, name),
                    name)

\* the loop over the methods in the resolver's visit_class_stmt
ResolveMethods(rs, methods, i) ==
    IF i > Len(methods) THEN rs
    ELSE Then(resolve_function(rs, methods[i].params, methods[i].body,
                                   IF methods[i].name.lexeme = "init"
                                   THEN "Initializer" ELSE "Method"),
              LAMBDA rs1: ResolveMethods(rs1, methods, i + 1))

\* the class name is declared and defined; a class may not extend itself
ClassDeclared(rs, name, superclass) ==
    IF superclass.k = "Variable" /\ name.lexeme = superclass.name.lexeme
    THEN Resolver_error(Resolver_define(declare(rs, name), name), superclass.name,
                        "A class cannot inherit from itself.")
    ELSE Resolver_define(declare(rs, name), name)

\* the superclass is resolved and a scope that holds "super" is opened
SuperScope(rs, superclass) ==
    IF superclass.k = "Variable"
    THEN InsertLast(begin_scope(resolve_local([rs EXCEPT !.current_class = "Subclass"],
                                              superclass.name)),
                    "super", TRUE)
    ELSE rs

\* ClassBody closing the scope of "this" only
ClassBody_unmatched(rs, superclass, methods) ==
    end_scope(ResolveMethods(InsertLast(begin_scope(rs), "this", TRUE), methods, 1))

\* the scope of "this", the methods, and the scopes closed again
ClassBody(rs, superclass, methods) ==
    IF superclass.k # "None"
    THEN end_scope(end_scope(ResolveMethods(InsertLast(begin_scope(rs), "this", TRUE),
                                            methods, 1)))
    ELSE end_scope(ResolveMethods(InsertLast(begin_scope(rs), "this", TRUE),
                                  methods, 1))

Resolver_visit_class_stmt(rs, name, superclass, methods) ==
    [ClassBody(SuperScope(ClassDeclared([rs EXCEPT !.current_class = "Class"],
                                        name, superclass),
                          superclass),
               superclass, methods)
       EXCEPT !.current_class = rs.current_class]

\* Stmt::accept with the resolver as the visitor
resolve_stmt(rs, statement) ==
    CASE statement.k = "Block" -> Resolver_visit_block_stmt(rs, statement.statements)
      [] statement.k = "Expression" -> resolve_expr(rs, statement.expr)
      [] statement.k = "Print" -> resolve_expr(rs, statement.expr)
      [] statement.k = "Var" ->
            Resolver_visit_var_stmt(rs, statement.name, statement.initializer)
      [] statement.k = "If" ->
            Resolver_visit_if_stmt(rs, statement.condition, statement.then_branch,
                                   statement.else_branch)
      [] statement.k = "While" ->
            resolve_stmt(resolve_expr(rs, statement.condition), statement.body)
      [] statement.k = "Function" ->
            Resolver_visit_function_stmt(rs, statement.name, statement.params,
                                         statement.body)
      [] statement.k = "Return" ->
            Resolver_visit_return_stmt(rs, statement.keyword, statement.value)
      [] statement.k = "Class" ->
            Resolver_visit_class_stmt(rs, statement.name, statement.superclass,
                                      statement.methods)

(***************************************************************************)
(* Syntax trees (src/src/expr.rs, src/src/stmt.rs): one record per Expr    *)
(* and Stmt variant; None stands for an absent Option<Expr> or else        *)
(* branch.                                                                 *)
(***************************************************************************)
None == [k |-> "None"]

Literal(value) == [k |-> "Literal", value |-> value]

Variable(lexeme, line) == [k |-> "Variable", name |-> Identifier(lexeme, line)]

Assign(lexeme, line, value) ==
    [k |-> "Assign", name |-> Identifier(lexeme, line), value |-> value]

Binary(left, type, line, right) ==
    [k |-> "Binary", left |-> left, operator |-> Token(type, type, line),
     right |-> right]

Logical(left, type, line, right) ==
    [k |-> "Logical", left |-> left, operator |-> Token(type, type, line),
     right |-> right]

Call(callee, line, arguments) ==
    [k |-> "Call", callee |-> callee, paren |-> Token("RightParen", ")", line),
     arguments |-> arguments]

Get(object, lexeme, line) ==
    [k |-> "Get", object |-> object, name |-> Identifier(lexeme, line)]

Set(object, lexeme, line, value) ==
    [k |-> "Set", object |-> object, name |-> Identifier(lexeme, line),
     value |-> value]

This(line) == [k |-> "This", keyword |-> Token("This", "this", line)]

Super(line, method) ==
    [k |-> "Super", keyword |-> Token("Super", "super", line),
     method |-> Identifier(method, line)]

Block(statements) == [k |-> "Block", statements |-> statements]

Expression(expr) == [k |-> "Expression", expr |-> expr]

PrintStmt(expr) == [k |-> "Print", expr |-> expr]

Var(lexeme, line, initializer) ==
    [k |-> "Var", name |-> Identifier(lexeme, line), initializer |-> initializer]

Function(lexeme, line, params, body) ==
    [k |-> "Function", name |-> Identifier(lexeme, line), params |-> params,
     body |-> body]

ReturnStmt(line, value) ==
    [k |-> "Return", keyword |-> Token("Return", "return", line), value |-> value]

Class(lexeme, line, superclass, methods) ==
    [k |-> "Class", name |-> Identifier(lexeme, line), superclass |-> superclass,
     methods |-> methods]

(***************************************************************************)
(* The scanner (src/src/scanner.rs).  The source is a sequence of          *)
(* characters, each a string of length one; start and current count        *)
(* characters from 0 as in the code, so source[i] of the code is           *)
(* source[i + 1] here.  A lexeme and a string payload are the sequences of *)
(* the characters they are collected from.                                 *)
(*   source, tokens, start, current, line, keywords  the fields of Scanner *)
(*   errors   the diagnostics handed to Errors::error, in order            *)
(*   panic    the message of the panic that ended the scan, "" when none   *)
(* The character classes and the parse of a number are those of Rust's     *)
(* char::is_ascii_digit, char::is_ascii_alphanumeric and str::parse.       *)
(***************************************************************************)
\* 'a'..='z' | 'A'..='Z'
Alphabetic ==
    {"a", "b", "c", "d", "e", "f", "g", "h", "i", "j", "k", "l", "m",
     "n", "o", "p", "q", "r", "s", "t", "u", "v", "w", "x", "y", "z",
     "A", "B", "C", "D", "E", "F", "G", "H", "I", "J", "K", "L", "M",
     "N", "O", "P", "Q", "R", "S", "T", "U", "V", "W", "X", "Y", "Z"}

DigitValue ==
    "0" :> 0 @@ "1" :> 1 @@ "2" :> 2 @@ "3" :> 3 @@ "4" :> 4 @@
    "5" :> 5 @@ "6" :> 6 @@ "7" :> 7 @@ "8" :> 8 @@ "9" :> 9

is_ascii_digit(c) == c \in DOMAIN DigitValue

is_ascii_alphanumeric(c) == c \in Alphabetic \/ is_ascii_digit(c)

Scanner_new(source) ==
    [source |-> source, tokens |-> <<>>, start |-> 0, current |-> 0,
     line |-> 1, errors |-> <<>>, panic |-> "",
     keywords |->
         <<"a", "n", "d">> :> "And" @@
         <<"c", "l", "a", "s", "s">> :> "Class" @@
         <<"e", "l", "s", "e">> :> "Else" @@
         <<"f", "a", "l", "s", "e">> :> "False" @@
         <<"f", "o", "r">> :> "For" @@
         <<"f", "u", "n">> :> "Fun" @@
         <<"i", "f">> :> "If" @@
         <<"n", "i", "l">> :> "Nil" @@
         <<"o", "r">> :> "Or" @@
         <<"p", "r", "i", "n", "t">> :> "Print" @@
         <<"r", "e", "t", "u", "r", "n">> :> "Return" @@
         <<"s", "u", "p", "e", "r">> :> "Super" @@
         <<"t", "h", "i", "s">> :> "This" @@
         <<"t", "r", "u", "e">> :> "True" @@
         <<"v", "a", "r">> :> "Var" @@
         <<"w", "h", "i", "l", "e">> :> "While"]

\* self.errors.error(line, message)
Errors_error(sc, line, message) ==
    [sc EXCEPT !.errors = Append(@, [line |-> line, message |-> message])]

Scanner_is_at_end(sc) == sc.current >= Len(sc.source)

\* the character '\0' is written "NUL"
Scanner_peek(sc) ==
    IF Scanner_is_at_end(sc) THEN "NUL" ELSE sc.source[sc.current + 1]

peek_next(sc) ==
    IF sc.current + 1 >= Len(sc.source) THEN "NUL" ELSE sc.source[sc.current + 2]

\* current += 1, then the read of source[current - 1], which panics when
\* the index is not below the length; the character it returns is
\* source[current] of the scanner after it
Scanner_advance(sc) ==
    IF sc.current >= Len(sc.source)
    THEN [sc EXCEPT !.current = @ + 1, !.panic = "index out of bounds"]
    ELSE [sc EXCEPT !.current = @ + 1]

\* match: the result and the scanner after it
Scanner_match(sc, expected) ==
    IF Scanner_is_at_end(sc) \/ sc.source[sc.current + 1] # expected
    THEN [matched |-> FALSE, sc |-> sc]
    ELSE [matched |-> TRUE, sc |-> [sc EXCEPT !.current = @ + 1]]

add_token(sc, token_type, literal) ==
    [sc EXCEPT !.tokens =
        Append(@, [type |-> token_type,
                   lexeme |-> SubSeq(sc.source, sc.start + 1, sc.current),
                   literal |-> literal,
                   line |-> sc.line])]

add_relational_token(sc, one_char_token, two_char_token) ==
    add_token(Scanner_match(sc, "=").sc,
              IF Scanner_match(sc, "=").matched
              THEN one_char_token ELSE two_char_token,
              None)

\* the `while` loops of the scanner, each over self.advance(): of a `//`
\* comment, of the digits of number, of the characters of identifier, and
\* of string, which tests `self.peek() != '"' && self.is_at_end()` and counts
\* the newlines; a panic ends the loop
RECURSIVE AdvanceWhile(_, _)
AdvanceWhile(sc, loop) ==
    IF /\ sc.panic = ""
       /\ CASE loop = "comment" -> Scanner_peek(sc) # "\n" /\ ~Scanner_is_at_end(sc)
            [] loop = "number" -> is_ascii_digit(Scanner_peek(sc))
            [] loop = "identifier" -> is_ascii_alphanumeric(Scanner_peek(sc))
            [] loop = "string" -> Scanner_peek(sc) # "\"" /\ Scanner_is_at_end(sc)
    THEN AdvanceWhile(Scanner_advance(
             IF loop = "string" /\ Scanner_peek(sc) = "\n"
             THEN [sc EXCEPT !.line = @ + 1] ELSE sc), loop)
    ELSE sc

\* the f64 of n / 10^scale: a fraction keeps no trailing zero
RECURSIVE Normalised(_, _)
Normalised(n, scale) ==
    IF scale > 0 /\ n % 10 = 0 THEN Normalised(n \div 10, scale - 1)
    ELSE IF scale > 0 THEN [t |-> "number", n |-> n, scale |-> scale]
    ELSE Number(n)

\* str_value.parse::<f64>() of digits with an optional `.` and digits, read
\* from the i-th character on; scale is -1 before the `.`
RECURSIVE ParseF64(_, _, _, _)
ParseF64(text, i, n, scale) ==
    IF i > Len(text) THEN Normalised(n, scale)
    ELSE IF text[i] = "." THEN ParseF64(text, i + 1, n, 0)
    ELSE ParseF64(text, i + 1, 10 * n + DigitValue[text[i]],
                  IF scale < 0 THEN scale ELSE scale + 1)

number(sc) ==
    With(AdvanceWhile(sc, "number"), LAMBDA whole:
    With(IF Scanner_peek(whole) = "." /\ is_ascii_digit(peek_next(whole))
         THEN AdvanceWhile(Scanner_advance(whole), "number")
         ELSE whole, LAMBDA end:
        add_token(end, "Number",
                  ParseF64(SubSeq(end.source, end.start + 1, end.current),
                           1, 0, -1))))

string(sc) ==
    With(AdvanceWhile(sc, "string"), LAMBDA s:
        IF s.panic # "" THEN s
        ELSE IF Scanner_is_at_end(s)
        THEN Errors_error(s, s.line, "Unterminated string.")
        ELSE With(Scanner_advance(s), LAMBDA closed:
                 add_token(closed, "String",
                           String(SubSeq(closed.source, closed.start + 2,
                                         closed.current - 1)))))

identifier(sc) ==
    With(AdvanceWhile(sc, "identifier"), LAMBDA word:
    With(SubSeq(word.source, word.start + 1, word.current), LAMBDA text:
        IF text \in DOMAIN word.keywords
        THEN add_token(word, word.keywords[text], None)
        ELSE add_token(word, "Identifier", String(text))))

scan_token(sc) ==
    With(Scanner_advance(sc), LAMBDA next:
    With(next.source[next.current], LAMBDA c:
        CASE c = "(" -> add_token(next, "LeftParen", None)
          [] c = ")" -> add_token(next, "RightParen", None)
          [] c = "{" -> add_token(next, "LeftBrace", None)
          [] c = "}" -> add_token(next, "RightBrace", None)
          [] c = "," -> add_token(next, "Comma", None)
          [] c = "." -> add_token(next, "Dot", None)
          [] c = "-" -> add_token(next, "Minus", None)
          [] c = "+" -> add_token(next, "Plus", None)
          [] c = ";" -> add_token(next, "Semicolon", None)
          [] c = "*" -> add_token(next, "Star", None)
          [] c = "!" -> add_relational_token(next, "Bang", "BangEqual")
          [] c = "=" -> add_relational_token(next, "Equal", "EqualEqual")
          [] c = "<" -> add_relational_token(next, "Less", "LessEqual")
          [] c = ">" -> add_relational_token(next, "Greater", "GreaterEqual")
          [] c = "/" ->
               IF Scanner_match(next, "/").matched
               THEN AdvanceWhile(Scanner_match(next, "/").sc, "comment")
               ELSE add_token(next, "Slash", None)
          [] c \in Alphabetic \/ c = "_" -> identifier(next)
          [] c \in {" ", "\r", "\t"} -> next
          [] c = "\n" -> [next EXCEPT !.line = @ + 1]
          [] c = "\"" -> string(next)
          [] is_ascii_digit(c) -> number(next)
          [] OTHER -> Errors_error(next, next.line, "Unexpected character.")))

(***************************************************************************)
(* The parser (src/src/parser.rs).  Its state:                             *)
(*   tokens, current   the fields of Parser; current counts from 0, so     *)
(*                     tokens[current] of the code is tokens[current + 1]  *)
(*   errors            the diagnostics printed by parser_error, in order   *)
(* A production yields a Result whose st is the parser it left behind and  *)
(* whose v is the node it built; Err(Error::Parse) and Err(Error::Runtime) *)
(* carry their token and message.  The call self.name(..) of a production  *)
(* is written Parse("name", p, x).  A production with a `while` loop takes *)
(* the expression built so far as its second argument: None on entry, the *)
(* value of `expr` from the first test of the loop on.                     *)
(***************************************************************************)
Parser_new(tokens) == [tokens |-> tokens, current |-> 0, errors |-> <<>>]

Parser_peek(p) == p.tokens[p.current + 1]

Parser_previous(p) == p.tokens[p.current]

Parser_is_at_end(p) == Parser_peek(p).type = "Eof"

Parser_advance(p) ==
    IF ~Parser_is_at_end(p) THEN [p EXCEPT !.current = @ + 1] ELSE p

Parser_check(p, token_type) ==
    IF Parser_is_at_end(p) THEN FALSE ELSE Parser_peek(p).type = token_type

\* match: TRUE when the next token has one of the types; the parser after a
\* successful match is Parser_advance(p)
Parser_match(p, token_types) == \E t \in token_types : Parser_check(p, t)

\* Parser::error: parser_error prints the diagnostic, the value is the error
Parser_error(p, token, message) ==
    Result("parse",
           [p EXCEPT !.errors = Append(@, [token |-> token, message |-> message])],
           Nil, token, message)

consume(p, token_type, message) ==
    IF Parser_check(p, token_type)
    THEN Ok(Parser_advance(p), Parser_previous(Parser_advance(p)))
    ELSE Parser_error(p, Parser_peek(p), message)

\* synchronize: advance, then stop at the end, after a `;` or before the
\* keyword of a statement, else go round the loop, which advances again
RECURSIVE synchronize(_)
synchronize(p) ==
    With(Parser_advance(p), LAMBDA q:
        IF Parser_is_at_end(q) THEN q
        ELSE IF Parser_previous(q).type = "Semicolon" THEN q
        ELSE IF Parser_peek(q).type \in
                    {"Class", "Fun", "Var", "For", "If", "While", "Print", "Return"}
        THEN q
        ELSE synchronize(q))

RECURSIVE Parse(_, _, _)

\* an error of the declaration synchronizes the parser and is handed on
declaration(p) ==
    With(IF Parser_match(p, {"Fun"})
         THEN Parse("function", Parser_advance(p), "function")
         ELSE IF Parser_match(p, {"Var"})
         THEN Parse("var_declaration", Parser_advance(p), None)
         ELSE IF Parser_match(p, {"If"})
         THEN Parse("if_statement", Parser_advance(p), None)
         ELSE Parse("statement", p, None),
         LAMBDA res:
             IF res.r # "ok" THEN [res EXCEPT !.st = synchronize(res.st)]
             ELSE res)

if_statement(p) ==
    Try(consume(p, "LeftParen", Message("Expect '(' after 'if'.", <<>>)), LAMBDA l:
    Try(Parse("expression", l.st, None), LAMBDA c:
    Try(consume(c.st, "RightParen",
                Message("Expect ')' after if condition.", <<>>)), LAMBDA r:
    Try(Parse("statement", r.st, None), LAMBDA t:
    Try(IF Parser_match(t.st, {"Else"})
        THEN Parse("statement", Parser_advance(t.st), None)
        ELSE Ok(t.st, None), LAMBDA e:
        Ok(e.st, [k |-> "If", condition |-> c.v, then_branch |-> t.v,
                  else_branch |-> e.v]))))))

statement(p) ==
    IF Parser_match(p, {"Print"})
    THEN Parse("print_statement", Parser_advance(p), None)
    ELSE IF Parser_match(p, {"Return"})
    THEN Parse("return_statement", Parser_advance(p), None)
    ELSE IF Parser_match(p, {"For"})
    THEN Parse("for_statement", Parser_advance(p), None)
    ELSE IF Parser_match(p, {"While"})
    THEN Parse("while_statement", Parser_advance(p), None)
    ELSE IF Parser_match(p, {"LeftBrace"})
    THEN Try(Parse("block", Parser_advance(p), <<>>), LAMBDA b:
             Ok(b.st, Block(b.v)))
    ELSE Parse("expression_statement", p, None)

return_statement(p) ==
    Try(IF ~Parser_check(p, "Semicolon") THEN Parse("expression", p, None)
        ELSE Ok(p, None), LAMBDA v:
    Try(consume(v.st, "Semicolon",
                Message("Expect ';' after return value.", <<>>)), LAMBDA s:
        Ok(s.st, [k |-> "Return", keyword |-> Parser_previous(p),
                  value |-> v.v])))

for_statement(p) ==
    Try(consume(p, "LeftParen", Message("Expect '(' after 'for'.", <<>>)), LAMBDA l:
    Try(IF Parser_match(l.st, {"Semicolon"}) THEN Ok(Parser_advance(l.st), None)
        ELSE IF Parser_match(l.st, {"Var"})
        THEN Parse("var_declaration", Parser_advance(l.st), None)
        ELSE Parse("expression_statement", l.st, None), LAMBDA i:
    Try(IF ~Parser_check(i.st, "Semicolon") THEN Parse("expression", i.st, None)
        ELSE Ok(i.st, None), LAMBDA c:
    Try(consume(c.st, "Semicolon",
                Message("Expect ';' after loop condition.", <<>>)), LAMBDA s:
    Try(IF ~Parser_check(s.st, "RightParen") THEN Parse("expression", s.st, None)
        ELSE Ok(s.st, None), LAMBDA n:
    Try(consume(n.st, "RightParen",
                Message("Expect ')' after loop condition.", <<>>)), LAMBDA r:
    Try(Parse("statement", r.st, None), LAMBDA b:
    With([k |-> "While",
          condition |-> IF c.v.k = "None" THEN Literal(Bool(TRUE)) ELSE c.v,
          body |-> IF n.v.k # "None" THEN Block(<<b.v, Expression(n.v)>>)
                   ELSE b.v], LAMBDA loop:
        Ok(b.st, IF i.v.k # "None" THEN Block(<<i.v, loop>>) ELSE loop)))))))))

print_statement(p) ==
    Try(Parse("expression", p, None), LAMBDA e:
    Try(consume(e.st, "Semicolon", Message("Expect ';' after value.", <<>>)),
        LAMBDA s: Ok(s.st, PrintStmt(e.v))))

var_declaration(p) ==
    Try(consume(p, "Identifier", Message("Expect variable name.", <<>>)), LAMBDA n:
    Try(IF Parser_match(n.st, {"Equal"})
        THEN Parse("expression", Parser_advance(n.st), None)
        ELSE Ok(n.st, None), LAMBDA i:
    Try(consume(i.st, "Semicolon",
                Message("Expect ';' after variable declaration.", <<>>)), LAMBDA s:
        Ok(s.st, [k |-> "Var", name |-> n.v, initializer |-> i.v]))))

while_statement(p) ==
    Try(consume(p, "LeftParen", Message("Expect '(' after 'while'.", <<>>)), LAMBDA l:
    Try(Parse("expression", l.st, None), LAMBDA c:
    Try(consume(c.st, "RightParen", Message("Expect ')' after condition.", <<>>)),
        LAMBDA r:
    Try(Parse("statement", r.st, None), LAMBDA b:
        Ok(b.st, [k |-> "While", condition |-> c.v, body |-> b.v])))))

expression_statement(p) ==
    Try(Parse("expression", p, None), LAMBDA e:
    Try(consume(e.st, "Semicolon", Message("Expect ';' after value.", <<>>)),
        LAMBDA s: Ok(s.st, Expression(e.v))))

\* the loop over the parameters of function; the check of 255 parameters
\* reports its error and goes on
RECURSIVE ParamLoop(_, _)
ParamLoop(p, params) ==
    Try(consume(IF Len(params) >= 255
                THEN Parser_error(p, Parser_peek(p),
                         Message("Cannot have more than 255 parameters.", <<>>)).st
                ELSE p,
                "Identifier", Message("Expect parameter name.", <<>>)), LAMBDA n:
        IF Parser_match(n.st, {"Comma"})
        THEN ParamLoop(Parser_advance(n.st), Append(params, n.v))
        ELSE Ok(n.st, Append(params, n.v)))

function(p, kind) ==
    Try(consume(p, "Identifier", Message("Expect {} name.", <<kind>>)), LAMBDA n:
    Try(consume(n.st, "LeftParen", Message("Expect '(' after {} name.", <<kind>>)),
        LAMBDA l:
    Try(IF ~Parser_check(l.st, "RightParen") THEN ParamLoop(l.st, <<>>)
        ELSE Ok(l.st, <<>>), LAMBDA ps:
    Try(consume(ps.st, "RightParen", Message("Expect ')' after parameters.", <<>>)),
        LAMBDA r:
    Try(consume(r.st, "LeftBrace", Message("Expect '{' before {} body.", <<kind>>)),
        LAMBDA b:
    Try(Parse("block", b.st, <<>>), LAMBDA body:
        Ok(body.st, [k |-> "Function", name |-> n.v, params |-> ps.v,
                     body |-> body.v])))))))

\* block, with the statements pushed so far
block(p, statements) ==
    IF ~Parser_check(p, "RightBrace") /\ ~Parser_is_at_end(p)
    THEN Try(Parse("declaration", p, None), LAMBDA d:
             Parse("block", d.st, Append(statements, d.v)))
    ELSE Try(consume(p, "RightBrace", Message("Expect '}' after block.", <<>>)),
             LAMBDA r: Ok(r.st, statements))

assignment(p) ==
    Try(Parse("Parser_or", p, None), LAMBDA e:
        IF Parser_match(e.st, {"Equal"})
        THEN Try(Parse("assignment", Parser_advance(e.st), None), LAMBDA v:
                 IF e.v.k = "Variable"
                 THEN Ok(v.st, [k |-> "Assign", name |-> e.v.name, value |-> v.v])
                 ELSE Parser_error(v.st, Parser_previous(Parser_advance(e.st)),
                                   Message("Invalid assignment target.", <<>>)))
        ELSE e)

Parser_or(p, expr) ==
    IF expr.k = "None"
    THEN Try(Parse("Parser_and", p, None), LAMBDA left:
             Parse("Parser_or", left.st, left.v))
    ELSE IF Parser_match(p, {"Or"})
    THEN Try(Parse("Parser_and", Parser_advance(p), None), LAMBDA right:
             Parse("Parser_or", right.st,
                   [k |-> "Logical", left |-> expr,
                    operator |-> Parser_previous(Parser_advance(p)),
                    right |-> right.v]))
    ELSE Ok(p, expr)

Parser_and(p, expr) ==
    IF expr.k = "None"
    THEN Try(Parse("equality", p, None), LAMBDA left:
             Parse("Parser_and", left.st, left.v))
    ELSE IF Parser_match(p, {"Or"})
    THEN Try(Parse("equality", Parser_advance(p), None), LAMBDA right:
             Parse("Parser_and", right.st,
                   [k |-> "Logical", left |-> expr,
                    operator |-> Parser_previous(Parser_advance(p)),
                    right |-> right.v]))
    ELSE Ok(p, expr)

equality(p, expr) ==
    IF expr.k = "None"
    THEN Try(Parse("comparison", p, None), LAMBDA left:
             Parse("equality", left.st, left.v))
    ELSE IF Parser_match(p, {"BangEqual", "EqualEqual"})
    THEN Try(Parse("comparison", Parser_advance(p), None), LAMBDA right:
             Parse("equality", right.st,
                   [k |-> "Binary", left |-> expr,
                    operator |-> Parser_previous(Parser_advance(p)),
                    right |-> right.v]))
    ELSE Ok(p, expr)

comparison(p, expr) ==
    IF expr.k = "None"
    THEN Try(Parse("term", p, None), LAMBDA left:
             Parse("comparison", left.st, left.v))
    ELSE IF Parser_match(p, {"Greater", "GreaterEqual", "Less", "LessEqual"})
    THEN Try(Parse("term", Parser_advance(p), None), LAMBDA right:
             Parse("comparison", right.st,
                   [k |-> "Binary", left |-> expr,
                    operator |-> Parser_previous(Parser_advance(p)),
                    right |-> right.v]))
    ELSE Ok(p, expr)

\* term with the operands of unary in place of those of factor
term_flat(p, expr) ==
    IF expr.k = "None"
    THEN Try(Parse("unary", p, None), LAMBDA left:
             Parse("term", left.st, left.v))
    ELSE IF Parser_match(p, {"Minus", "Plus"})
    THEN Try(Parse("unary", Parser_advance(p), None), LAMBDA right:
             Parse("term", right.st,
                   [k |-> "Binary", left |-> expr,
                    operator |-> Parser_previous(Parser_advance(p)),
                    right |-> right.v]))
    ELSE Ok(p, expr)

term(p, expr) ==
    IF expr.k = "None"
    THEN Try(Parse("factor", p, None), LAMBDA left:
             Parse("term", left.st, left.v))
    ELSE IF Parser_match(p, {"Minus", "Plus"})
    THEN Try(Parse("factor", Parser_advance(p), None), LAMBDA right:
             Parse("term", right.st,
                   [k |-> "Binary", left |-> expr,
                    operator |-> Parser_previous(Parser_advance(p)),
                    right |-> right.v]))
    ELSE Ok(p, expr)

factor(p, expr) ==
    IF expr.k = "None"
    THEN Try(Parse("unary", p, None), LAMBDA left:
             Parse("factor", left.st, left.v))
    ELSE IF Parser_match(p, {"Slash", "Star"})
    THEN Try(Parse("unary", Parser_advance(p), None), LAMBDA right:
             Parse("factor", right.st,
                   [k |-> "Binary", left |-> expr,
                    operator |-> Parser_previous(Parser_advance(p)),
                    right |-> right.v]))
    ELSE Ok(p, expr)

unary(p) ==
    IF Parser_match(p, {"Bang", "Minus"})
    THEN Try(Parse("unary", Parser_advance(p), None), LAMBDA right:
             Ok(right.st, [k |-> "Unary",
                           operator |-> Parser_previous(Parser_advance(p)),
                           right |-> right.v]))
    ELSE Parse("call", p, None)

\* the loop over the arguments of finish_call; the check of 255 arguments
\* reports its error and goes on
RECURSIVE ArgumentLoop(_, _)
ArgumentLoop(p, arguments) ==
    Try(Parse("expression", p, None), LAMBDA a:
    With(IF Len(arguments) + 1 >= 255
         THEN Parser_error(a.st, Parser_peek(a.st),
                           Message("Can't have more than 255 arguments.", <<>>)).st
         ELSE a.st, LAMBDA q:
        IF Parser_match(q, {"Comma"})
        THEN ArgumentLoop(Parser_advance(q), Append(arguments, a.v))
        ELSE Ok(q, Append(arguments, a.v))))

finish_call(p, callee) ==
    Try(IF ~Parser_check(p, "RightParen") THEN ArgumentLoop(p, <<>>)
        ELSE Ok(p, <<>>), LAMBDA args:
    Try(consume(args.st, "RightParen",
                Message("Expect ')' after arguments.", <<>>)), LAMBDA paren:
        Ok(paren.st, [k |-> "Call", callee |-> callee, paren |-> paren.v,
                      arguments |-> args.v])))

call(p, expr) ==
    IF expr.k = "None"
    THEN Try(Parse("primary", p, None), LAMBDA e: Parse("call", e.st, e.v))
    ELSE IF Parser_match(p, {"LeftParen"})
    THEN Try(Parse("finish_call", Parser_advance(p), expr), LAMBDA c:
             Parse("call", c.st, c.v))
    ELSE Ok(p, expr)

\* the literal of a String or Number token is token.literal.unwrap_or_default()
primary(p) ==
    IF Parser_match(p, {"False"}) THEN Ok(Parser_advance(p), Literal(Bool(FALSE)))
    ELSE IF Parser_match(p, {"True"})
    THEN Ok(Parser_advance(p), Literal(Bool(TRUE)))
    ELSE IF Parser_match(p, {"Nil"}) THEN Ok(Parser_advance(p), Literal(Nil))
    ELSE IF Parser_match(p, {"String", "Number"})
    THEN Ok(Parser_advance(p),
            Literal(IF "k" \in DOMAIN Parser_peek(p).literal THEN Nil
                    ELSE Parser_peek(p).literal))
    ELSE IF Parser_match(p, {"Identifier"})
    THEN Ok(Parser_advance(p),
            [k |-> "Variable", name |-> Parser_previous(Parser_advance(p))])
    ELSE IF Parser_match(p, {"LeftParen"})
    THEN Try(Parse("expression", Parser_advance(p), None), LAMBDA e:
         Try(consume(e.st, "RightParen",
                     Message("Expected ')' after expression.", <<>>)), LAMBDA r:
             Ok(r.st, [k |-> "Grouping", expr |-> e.v])))
    ELSE Runtime(p, Parser_peek(p), Message("Expected expression", <<>>))

Parse(production, p, x) ==
    CASE production = "declaration" -> declaration(p)
      [] production = "statement" -> statement(p)
      [] production = "expression" -> assignment(p)
      [] production = "if_statement" -> if_statement(p)
      [] production = "for_statement" -> for_statement(p)
      [] production = "while_statement" -> while_statement(p)
      [] production = "var_declaration" -> var_declaration(p)
      [] production = "print_statement" -> print_statement(p)
      [] production = "return_statement" -> return_statement(p)
      [] production = "expression_statement" -> expression_statement(p)
      [] production = "function" -> function(p, x)
      [] production = "block" -> block(p, x)
      [] production = "assignment" -> assignment(p)
      [] production = "Parser_or" -> Parser_or(p, x)
      [] production = "Parser_and" -> Parser_and(p, x)
      [] production = "equality" -> equality(p, x)
      [] production = "comparison" -> comparison(p, x)
      [] production = "term" -> term(p, x)
      [] production = "factor" -> factor(p, x)
      [] production = "unary" -> unary(p)
      [] production = "call" -> call(p, x)
      [] production = "primary" -> primary(p)
      [] production = "finish_call" -> finish_call(p, x)

(***************************************************************************)
(* The programs the pipeline is run on.  `input` names a family of         *)
(* programs and the parameters of one member; Program(input) is its syntax *)
(* tree, as the parser hands it to the resolver and the evaluator.         *)
(***************************************************************************)
Numbers == {Number(n) : n \in 0 .. MaxNum}

Literals == {Nil, Bool(FALSE), Bool(TRUE), String(""), String("s")} \cup Numbers

Lines == 1 .. MaxLine

\* var n = 0;
\* fun b() { n = n + 1; return B; }
\* class K {}
\* var i = K();
\* print A op b();          (op is `or` or `and`)
LeftOperands ==
    {Literal(v) : v \in Literals}
        \cup {Variable("clock", 5), Variable("K", 5), Variable("i", 5)}

LogicalInputs ==
    [family : {"logical"}, op : {"Or", "And"}, a : LeftOperands, b : Literals]

LogicalProgram(in) ==
    <<Var("n", 1, Literal(Number(0))),
      Function("b", 2, <<>>,
               <<Expression(Assign("n", 2, Binary(Variable("n", 2), "Plus", 2,
                                                  Literal(Number(1))))),
                 ReturnStmt(2, Literal(in.b))>>),
      Class("K", 3, None, <<>>),
      Var("i", 4, Call(Variable("K", 4), 4, <<>>)),
      PrintStmt(Logical(in.a, in.op, 5, Call(Variable("b", 5), 5, <<>>)))>>

\* var a = G;
\* { fun show() { print a; } show(); var a = B; show(); }
\* with `print a` on line lf and `var a = B` on line ld
StaticInputs ==
    [family : {"static"}, global : Literals, block : Literals,
     lf : Lines, ld : Lines]

StaticProgram(in) ==
    <<Var("a", 1, Literal(in.global)),
      Block(<<Function("show", 2, <<>>, <<PrintStmt(Variable("a", in.lf))>>),
              Expression(Call(Variable("show", 2), 2, <<>>)),
              Var("a", in.ld, Literal(in.block)),
              Expression(Call(Variable("show", 2), 2, <<>>))>>)>>

\* {
\*   var x = V0; fun get() { return x; } fun set(v) { x = v; }      (line 1)
\*   print get(); x = V1; print get(); set(V2); print x; print get(); (line 2)
\* }
ClosureInputs ==
    [family : {"closure"}, v0 : Numbers, v1 : Numbers, v2 : Numbers]

ClosureProgram(in) ==
    <<Block(<<Var("x", 1, Literal(in.v0)),
              Function("get", 1, <<>>, <<ReturnStmt(1, Variable("x", 1))>>),
              Function("set", 1, <<Identifier("v", 1)>>,
                       <<Expression(Assign("x", 1, Variable("v", 1)))>>),
              PrintStmt(Call(Variable("get", 2), 2, <<>>)),
              Expression(Assign("x", 2, Literal(in.v1))),
              PrintStmt(Call(Variable("get", 2), 2, <<>>)),
              Expression(Call(Variable("set", 2), 2, <<Literal(in.v2)>>)),
              PrintStmt(Variable("x", 2)),
              PrintStmt(Call(Variable("get", 2), 2, <<>>))>>)>>

ClassNames == <<"K0", "K1", "K2", "K3", "K4">>

ParamNames == <<"p1", "p2", "p3", "p4">>

\* n parameters on a line, and n arguments
Params(n, line) == [i \in 1 .. n |-> Identifier(ParamNames[i], line)]

Args(n) == [i \in 1 .. n |-> Literal(Number(0))]

\* class K0 { m() { return 0; } }
\* class K1 < K0 { m() { return 1; } }   ...   up to K<chain>
\* var o = K<chain>();
\* print o.m();
\* where the class of level i declares m only when i is in decl
InheritInputs ==
    UNION {[family : {"inherit"}, chain : {n}, decl : SUBSET (0 .. n)] :
               n \in 0 .. MaxChain}

InheritClass(in, level) ==
    Class(ClassNames[level + 1], level + 1,
          IF level = 0 THEN None ELSE Variable(ClassNames[level], level + 1),
          IF level \in in.decl
          THEN <<Function("m", level + 1, <<>>,
                          <<ReturnStmt(level + 1, Literal(Number(level)))>>)>>
          ELSE <<>>)

InheritProgram(in) ==
    [i \in 1 .. in.chain + 1 |-> InheritClass(in, i - 1)]
        \o <<Var("o", in.chain + 2,
                 Call(Variable(ClassNames[in.chain + 1], in.chain + 2),
                      in.chain + 2, <<>>)),
             PrintStmt(Call(Get(Variable("o", in.chain + 3), "m", in.chain + 3),
                            in.chain + 3, <<>>))>>

\* class A { m() { print 0; return this; } }          (only when in.a)
\* class B < A { m() { print 1; return this; } }      (m only when in.b)
\* class C < B { m() { print 2; return this; } t() { return super.m(); } }
\* class D < C { m() { print 3; return this; } u() { return super.t(); } }
\* var o = D(); var r = o.u();      (or: var o = C(); var r = o.t();)
SuperInputs == [family : {"super"}, a : BOOLEAN, b : BOOLEAN, class : {"C", "D"}]

Marker(level, line) ==
    Function("m", line, <<>>,
             <<PrintStmt(Literal(Number(level))), ReturnStmt(line, This(line))>>)

SuperProgram(in) ==
    <<Class("A", 1, None, IF in.a THEN <<Marker(0, 1)>> ELSE <<>>),
      Class("B", 2, Variable("A", 2), IF in.b THEN <<Marker(1, 2)>> ELSE <<>>),
      Class("C", 3, Variable("B", 3),
            <<Marker(2, 3),
              Function("t", 3, <<>>,
                       <<ReturnStmt(3, Call(Super(3, "m"), 3, <<>>))>>)>>),
      Class("D", 4, Variable("C", 4),
            <<Marker(3, 4),
              Function("u", 4, <<>>,
                       <<ReturnStmt(4, Call(Super(4, "t"), 4, <<>>))>>)>>),
      Var("o", 5, Call(Variable(in.class, 5), 5, <<>>)),
      Var("r", 6, Call(Get(Variable("o", 6), IF in.class = "D" THEN "u" ELSE "t", 6),
                       6, <<>>))>>

\* class P { init(p1, ..) { print 1; } }            (kind "normal")
\* class P { init(p1, ..) { print 1; return; print 2; } }   (kind "early")
\* class P {}                                       (kind "absent")
\* var o1 = P(0, ..); var o2 = P(0, ..);
\* var q = o1.init(0, ..);                          (when P declares init)
InitInputs ==
    [family : {"init"}, kind : {"absent", "normal", "early"}, params : 0 .. MaxArgs]

InitBody(kind, line) ==
    IF kind = "normal" THEN <<PrintStmt(Literal(Number(1)))>>
    ELSE <<PrintStmt(Literal(Number(1))), ReturnStmt(line, None),
           PrintStmt(Literal(Number(2)))>>

InitProgram(in) ==
    <<Class("P", 1, None,
            IF in.kind = "absent" THEN <<>>
            ELSE <<Function("init", 1, Params(in.params, 1), InitBody(in.kind, 1))>>),
      Var("o1", 2, Call(Variable("P", 2), 2, Args(in.params))),
      Var("o2", 3, Call(Variable("P", 3), 3, Args(in.params)))>>
        \o IF in.kind = "absent" THEN <<>>
           ELSE <<Var("q", 4, Call(Get(Variable("o1", 4), "init", 4), 4,
                                   Args(in.params)))>>

\* class K { m() { { { EXIT } } } }
\* fun f() { { EXIT } }
\* { { class Q < SUPER {}  HERE } }
\* print 2;
\* EXIT is `print 1;`, `return;` or `print missing;`; HERE is `{ EXIT }`,
\* `f();` or `K().m();`; SUPER is absent, the class K or the function clock
RestoreInputs ==
    [family : {"restore"}, exit : {"normal", "return", "error"},
     where : {"block", "function", "method"}, super : {"none", "class", "value"}]

Exit(kind, line) ==
    CASE kind = "normal" -> PrintStmt(Literal(Number(1)))
      [] kind = "return" -> ReturnStmt(line, None)
      [] kind = "error" -> PrintStmt(Variable("missing", line))

RestoreSuperclass(kind, line) ==
    CASE kind = "none" -> None
      [] kind = "class" -> Variable("K", line)
      [] kind = "value" -> Variable("clock", line)

RestoreHere(in, line) ==
    CASE in.where = "block" -> Block(<<Exit(in.exit, line)>>)
      [] in.where = "function" -> Expression(Call(Variable("f", line), line, <<>>))
      [] in.where = "method" ->
            Expression(Call(Get(Call(Variable("K", line), line, <<>>), "m", line),
                            line, <<>>))

RestoreProgram(in) ==
    <<Class("K", 1, None,
            <<Function("m", 1, <<>>, <<Block(<<Block(<<Exit(in.exit, 1)>>)>>)>>)>>),
      Function("f", 2, <<>>, <<Block(<<Exit(in.exit, 2)>>)>>),
      Block(<<Block(<<Class("Q", 3, RestoreSuperclass(in.super, 3), <<>>),
                      RestoreHere(in, 4)>>)>>),
      PrintStmt(Literal(Number(2)))>>

\* var a = nil;
\* { var a = 1; { var a = 2; { var a = 3; print a; } } }
\* with `depth` nested blocks, the declaration of level i present only when
\* i is in decl, and the innermost statement `print a;` or `a = 0;`
DepthInputs ==
    UNION {[family : {"depth"}, depth : {d}, decl : SUBSET (1 .. d),
            ref : {"read", "assign"}] : d \in 1 .. MaxDepth}

DepthReference(in) ==
    IF in.ref = "read" THEN PrintStmt(Variable("a", 2))
    ELSE Expression(Assign("a", 2, Literal(Number(0))))

RECURSIVE DepthBlock(_, _)
DepthBlock(in, level) ==
    Block((IF level \in in.decl
           THEN <<Var("a", 1, Literal(Number(level)))>> ELSE <<>>)
          \o <<IF level = in.depth THEN DepthReference(in)
               ELSE DepthBlock(in, level + 1)>>)

DepthProgram(in) == <<Var("a", 1, Literal(Nil)), DepthBlock(in, 1)>>

\* class P {}  var o = P();  var p = o;
\* o.f = V;           (on line lw)
\* print REF.f;       (on line lr, REF is o or p)
FieldInputs ==
    [family : {"field"}, v : Numbers, lw : Lines, lr : Lines, through : {"o", "p"}]

FieldProgram(in) ==
    <<Class("P", 1, None, <<>>),
      Var("o", 1, Call(Variable("P", 1), 1, <<>>)),
      Var("p", 1, Variable("o", 1)),
      Expression(Set(Variable("o", in.lw), "f", in.lw, Literal(in.v))),
      PrintStmt(Get(Variable(in.through, in.lr), "f", in.lr))>>

\* fun f(p1, ..) { print 7; }
\* class P { init(p1, ..) { print 7; } }
\* CALLEE(0, ..);     (CALLEE is f, clock or P)
\* print 8;
ArityInputs ==
    [family : {"arity"}, callee : {"user", "native", "class"},
     params : 0 .. MaxArgs, args : 0 .. MaxArgs]

ArityCallee(in) ==
    CASE in.callee = "user" -> "f"
      [] in.callee = "native" -> "clock"
      [] in.callee = "class" -> "P"

ArityProgram(in) ==
    <<Function("f", 1, Params(in.params, 1), <<PrintStmt(Literal(Number(7)))>>),
      Class("P", 1, None,
            <<Function("init", 1, Params(in.params, 1),
                       <<PrintStmt(Literal(Number(7)))>>)>>),
      Expression(Call(Variable(ArityCallee(in), 2), 2, Args(in.args))),
      PrintStmt(Literal(Number(8)))>>

\* class Q {}
\* class P {}    or    class P < Q {}
\* var o = P(0, ..);            (args arguments)
\* print 8;
NoInitInputs == [family : {"noinit"}, args : 0 .. MaxArgs, super : BOOLEAN]

NoInitProgram(in) ==
    <<Class("Q", 1, None, <<>>),
      Class("P", 1, IF in.super THEN Variable("Q", 1) ELSE None, <<>>),
      Var("o", 2, Call(Variable("P", 2), 2, Args(in.args))),
      PrintStmt(Literal(Number(8)))>>

\* the declaration `var x = x;` with the name on line 2 and the read on line 1
SelfInitializer == Var("x", 2, Variable("x", 1))

\* var x = 0;                            (only when global)
\* var x = x;                            (where = top)
\* { var x = x; }                        (where = block)
\* fun f() { var x = x; }                (where = function)
\* { var x = 1; { var x = x; } }         (where = block, outer)
\* { var x = 1; fun f() { var x = x; } } (where = function, outer)
SelfInitInputs ==
    {in \in [family : {"selfinit"}, where : {"top", "block", "function"},
             outer : BOOLEAN, global : BOOLEAN] :
        in.where = "top" => ~in.outer}

SelfInitHere(in) ==
    CASE in.where = "top" -> SelfInitializer
      [] in.where = "block" -> Block(<<SelfInitializer>>)
      [] in.where = "function" -> Function("f", 1, <<>>, <<SelfInitializer>>)

SelfInitProgram(in) ==
    (IF in.global THEN <<Var("x", 1, Literal(Number(0)))>> ELSE <<>>)
    \o <<IF in.outer
         THEN Block(<<Var("x", 1, Literal(Number(1))), SelfInitHere(in)>>)
         ELSE SelfInitHere(in)>>

\* the statement `return;` or `return 1;` on line 2
ReturnHere(in) ==
    ReturnStmt(2, IF in.value THEN Literal(Number(1)) ELSE None)

\* fun f() {}  RETURN                                  (where = top)
\* fun f() { RETURN }                                  (where = function)
\* class P { init() { RETURN } }                       (where = init)
\* class P { m() { RETURN } }                          (where = method)
\* class P { init() { fun g() { RETURN } } }           (where = nested)
\* class P { init() { fun g() { return 1; } RETURN } } (where = after)
ReturnInputs ==
    [family : {"return"},
     where : {"top", "function", "init", "method", "nested", "after"},
     value : BOOLEAN]

ReturnProgram(in) ==
    CASE in.where = "top" ->
           <<Function("f", 1, <<>>, <<>>), ReturnHere(in)>>
      [] in.where = "function" ->
           <<Function("f", 1, <<>>, <<ReturnHere(in)>>)>>
      [] in.where = "init" ->
           <<Class("P", 1, None, <<Function("init", 1, <<>>, <<ReturnHere(in)>>)>>)>>
      [] in.where = "method" ->
           <<Class("P", 1, None, <<Function("m", 1, <<>>, <<ReturnHere(in)>>)>>)>>
      [] in.where = "nested" ->
           <<Class("P", 1, None,
                   <<Function("init", 1, <<>>,
                              <<Function("g", 1, <<>>, <<ReturnHere(in)>>)>>)>>)>>
      [] in.where = "after" ->
           <<Class("P", 1, None,
                   <<Function("init", 1, <<>>,
                              <<Function("g", 1, <<>>,
                                         <<ReturnStmt(1, Literal(Number(1)))>>),
                                ReturnHere(in)>>)>>)>>

\* fun f() { print u; }
\* STATEMENT          (on line 2)
\* print 9;
\* with STATEMENT one of `print E + 1;`, `print 1 + E;`, `if (E) print 1;`,
\* `if (E) print 1; else print 2;`, `while (E) print 1;` and with E the
\* undefined variable `u`, the call `f()` or a literal
RaiseInputs ==
    [family : {"raise"}, site : {"left", "right", "if", "else", "while"},
     fault : {"none", "undefined", "call"}]

RaiseExpr(in) ==
    CASE in.fault = "undefined" -> Variable("u", 2)
      [] in.fault = "call" -> Call(Variable("f", 2), 2, <<>>)
      [] in.site \in {"left", "right"} -> Literal(Number(1))
      [] OTHER -> Literal(Bool(in.site = "if"))

RaiseStatement(in) ==
    CASE in.site = "left" ->
             PrintStmt(Binary(RaiseExpr(in), "Plus", 2, Literal(Number(1))))
      [] in.site = "right" ->
             PrintStmt(Binary(Literal(Number(1)), "Plus", 2, RaiseExpr(in)))
      [] in.site = "if" ->
             [k |-> "If", condition |-> RaiseExpr(in),
              then_branch |-> PrintStmt(Literal(Number(1))), else_branch |-> None]
      [] in.site = "else" ->
             [k |-> "If", condition |-> RaiseExpr(in),
              then_branch |-> PrintStmt(Literal(Number(1))),
              else_branch |-> PrintStmt(Literal(Number(2)))]
      [] in.site = "while" ->
             [k |-> "While", condition |-> RaiseExpr(in),
              body |-> PrintStmt(Literal(Number(1)))]

RaiseProgram(in) ==
    <<Function("f", 1, <<>>, <<PrintStmt(Variable("u", 1))>>),
      RaiseStatement(in),
      PrintStmt(Literal(Number(9)))>>

\* class P {}  var a = P();  var b = P();  var n = 1;
\* print (T.x = V);
\* with T the instance `a` or the number `n`, and V the literal v or the
\* inner Set expression `b.y = v`
SetInputs ==
    [family : {"set"}, v : Numbers, target : {"a", "n"}, chain : BOOLEAN]

SetProgram(in) ==
    <<Class("P", 1, None, <<>>),
      Var("a", 1, Call(Variable("P", 1), 1, <<>>)),
      Var("b", 1, Call(Variable("P", 1), 1, <<>>)),
      Var("n", 1, Literal(Number(1))),
      PrintStmt(Set(Variable(in.target, 1), "x", 1,
                    IF in.chain
                    THEN Set(Variable("b", 1), "y", 1, Literal(in.v))
                    ELSE Literal(in.v)))>>

\* var a = 1;                    (when global)
\* { fun f() { a = 2; }
\*   var a = 3;                  (when local)
\*   f(); }
\* the name assigned in f has no recorded depth: no scope declares it where
\* f is resolved
UnresolvedInputs == [family : {"unresolved"}, global : BOOLEAN, local : BOOLEAN]

UnresolvedProgram(in) ==
    (IF in.global THEN <<Var("a", 1, Literal(Number(1)))>> ELSE <<>>)
    \o <<Block(<<Function("f", 2, <<>>,
                          <<Expression(Assign("a", 2, Literal(Number(2))))>>)>>
                \o (IF in.local THEN <<Var("a", 3, Literal(Number(3)))>> ELSE <<>>)
                \o <<Expression(Call(Variable("f", 4), 4, <<>>))>>)>>

\* class K {}
\* var z; STMT print z;     at top level, in a block, or as the body of h
\* with STMT (on line 2) one of
\*   class A { m() {} }                     class B < K { m() { print this; } }
\*   class A < A {}                         class B < K { init() { return 1; } }
\*   fun g(p, p) {}          return 1;      { var q = q; }
BalanceInputs ==
    [family : {"balance"}, nest : {"top", "block", "function"},
     stmt : {"class", "subclass", "itself", "init", "params", "return", "selfinit"}]

BalanceStatement(in) ==
    CASE in.stmt = "class" -> Class("A", 2, None, <<Function("m", 2, <<>>, <<>>)>>)
      [] in.stmt = "subclass" ->
             Class("B", 2, Variable("K", 2),
                   <<Function("m", 2, <<>>, <<PrintStmt(This(2))>>)>>)
      [] in.stmt = "itself" -> Class("A", 2, Variable("A", 2), <<>>)
      [] in.stmt = "init" ->
             Class("B", 2, Variable("K", 2),
                   <<Function("init", 2, <<>>,
                              <<ReturnStmt(2, Literal(Number(1)))>>)>>)
      [] in.stmt = "params" ->
             Function("g", 2, <<Identifier("p", 2), Identifier("p", 2)>>, <<>>)
      [] in.stmt = "return" -> ReturnStmt(2, Literal(Number(1)))
      [] in.stmt = "selfinit" -> Block(<<Var("q", 2, Variable("q", 2))>>)

BalanceBody(in) ==
    <<Var("z", 1, Literal(Nil)), BalanceStatement(in), PrintStmt(Variable("z", 3))>>

BalanceProgram(in) ==
    <<Class("K", 1, None, <<>>)>>
    \o (CASE in.nest = "top" -> BalanceBody(in)
          [] in.nest = "block" -> <<Block(BalanceBody(in))>>
          [] in.nest = "function" -> <<Function("h", 1, <<>>, BalanceBody(in))>>)

\* { var a = 1; print a; { print a; } }      (first = "outer")
\* { var a = 1; { print a; } print a; }      (first = "inner")
\* with the reference of the outer block on line `outer` and the one of the
\* inner block on line `inner`
SitesInputs ==
    [family : {"sites"}, first : {"outer", "inner"}, outer : Lines, inner : Lines]

SitesProgram(in) ==
    <<Block(<<Var("a", 1, Literal(Number(1)))>>
            \o (IF in.first = "outer"
                THEN <<PrintStmt(Variable("a", in.outer)),
                       Block(<<PrintStmt(Variable("a", in.inner))>>)>>
                ELSE <<Block(<<PrintStmt(Variable("a", in.inner))>>),
                       PrintStmt(Variable("a", in.outer))>>))>>

Program(in) ==
    CASE in.family = "logical" -> LogicalProgram(in)
      [] in.family = "sites" -> SitesProgram(in)
      [] in.family = "balance" -> BalanceProgram(in)
      [] in.family = "unresolved" -> UnresolvedProgram(in)
      [] in.family = "set" -> SetProgram(in)
      [] in.family = "raise" -> RaiseProgram(in)
      [] in.family = "static" -> StaticProgram(in)
      [] in.family = "closure" -> ClosureProgram(in)
      [] in.family = "inherit" -> InheritProgram(in)
      [] in.family = "super" -> SuperProgram(in)
      [] in.family = "init" -> InitProgram(in)
      [] in.family = "restore" -> RestoreProgram(in)
      [] in.family = "depth" -> DepthProgram(in)
      [] in.family = "field" -> FieldProgram(in)
      [] in.family = "arity" -> ArityProgram(in)
      [] in.family = "noinit" -> NoInitProgram(in)
      [] in.family = "selfinit" -> SelfInitProgram(in)
      [] in.family = "return" -> ReturnProgram(in)

\* the characters the scanned sources are made of: letters, an underscore,
\* a digit, the string quote, a newline, the four relational characters, a
\* slash, a blank and a character the scanner does not know
Quote == "\""

Newline == "\n"

Alphabet == {"o", "r", "_", "1", Quote, Newline, "=", "!", "<", ">", "/", " ", "@"}

RECURSIVE Sources(_)
Sources(n) ==
    IF n = 0 THEN {<<>>}
    ELSE Sources(n - 1)
             \cup {Append(s, c) : s \in {t \in Sources(n - 1) : Len(t) = n - 1},
                                  c \in Alphabet}

\* every source of up to MaxSource characters
ScanInputs == [family : {"scan"}, source : Sources(MaxSource)]

\* the scripts that are run from their source: every sequence of up to
\* MaxRun pieces, each a number, the semicolon of a statement, the minus of
\* a negation, the parentheses of a call or an unknown character
RunPieces == {<<"1">>, <<";">>, <<"-">>, <<"(", ")">>, <<"@">>}

RECURSIVE RunSources(_)
RunSources(n) ==
    IF n = 0 THEN {<<>>}
    ELSE RunSources(n - 1) \cup {s \o c : s \in RunSources(n - 1), c \in RunPieces}

RunInputs == [family : {"run"}, source : RunSources(MaxRun)]

\* a token as the scanner hands it to the parser
Lexed(type, lexeme, literal, line) ==
    [type |-> type, lexeme |-> lexeme, literal |-> literal, line |-> line]

\* a OP b ;    or    a OP b OP c ;     (each OP is `and` or `or`)
OperandNames == <<"a", "b", "c", "d">>

LogicInputs ==
    UNION {[family : {"logic"}, ops : [1 .. n -> {"And", "Or"}]] : n \in 1 .. MaxOps}

RECURSIVE LogicOperands(_, _)
LogicOperands(ops, i) ==
    IF i > Len(ops) THEN <<>>
    ELSE <<Lexed(ops[i], IF ops[i] = "And" THEN "and" ELSE "or", None, 1),
           Lexed("Identifier", OperandNames[i + 1], String(OperandNames[i + 1]), 1)>>
         \o LogicOperands(ops, i + 1)

LogicTokens(in) ==
    <<Lexed("Identifier", "a", String("a"), 1)>>
    \o LogicOperands(in.ops, 1)
    \o <<Lexed("Semicolon", ";", None, 1), Lexed("Eof", "", None, 1)>>

\* up to MaxStatements statements, the i-th on line i, each one of
\*   print 1 ;     var a ;     var ;  (no name)     print 1  (no semicolon)
StatementKinds == {"print", "var", "novar", "nosemi"}

RecoverInputs ==
    UNION {[family : {"recover"}, kinds : [1 .. n -> StatementKinds]] :
              n \in 1 .. MaxStatements}

StatementTokens(kind, line) ==
    CASE kind = "print" ->
           <<Lexed("Print", "print", None, line),
             Lexed("Number", "1", Number(1), line),
             Lexed("Semicolon", ";", None, line)>>
      [] kind = "var" ->
           <<Lexed("Var", "var", None, line),
             Lexed("Identifier", "a", String("a"), line),
             Lexed("Semicolon", ";", None, line)>>
      [] kind = "novar" ->
           <<Lexed("Var", "var", None, line), Lexed("Semicolon", ";", None, line)>>
      [] kind = "nosemi" ->
           <<Lexed("Print", "print", None, line),
             Lexed("Number", "1", Number(1), line)>>

RECURSIVE RecoverStatements(_, _)
RecoverStatements(kinds, i) ==
    IF i > Len(kinds) THEN <<>>
    ELSE StatementTokens(kinds[i], i) \o RecoverStatements(kinds, i + 1)

RecoverTokens(in) ==
    RecoverStatements(in.kinds, 1) \o <<Lexed("Eof", "", None, Len(in.kinds))>>

\* a OP b ;   or   a OP b OP c ;   with each OP an arithmetic, comparison
\* or equality operator, and with parentheses around the operands of the
\* operator numbered group when group is not 0
BinaryOperators == {"Minus", "Plus", "Star", "Slash", "Less", "EqualEqual"}

BinaryInputs ==
    UNION {[family : {"binary"}, ops : [1 .. n -> BinaryOperators], group : 0 .. n] :
              n \in 1 .. MaxOps}

BinaryOperator(type) ==
    Lexed(type,
          CASE type = "Minus" -> "-" [] type = "Plus" -> "+"
            [] type = "Star" -> "*" [] type = "Slash" -> "/"
            [] type = "Less" -> "<" [] type = "EqualEqual" -> "==",
          None, 1)

RECURSIVE BinaryOperands(_, _)
BinaryOperands(in, i) ==
    IF i > Len(in.ops) + 1 THEN <<>>
    ELSE (IF in.group = i THEN <<Lexed("LeftParen", "(", None, 1)>> ELSE <<>>)
         \o <<Lexed("Identifier", OperandNames[i], String(OperandNames[i]), 1)>>
         \o (IF in.group > 0 /\ in.group + 1 = i
             THEN <<Lexed("RightParen", ")", None, 1)>> ELSE <<>>)
         \o (IF i <= Len(in.ops) THEN <<BinaryOperator(in.ops[i])>> ELSE <<>>)
         \o BinaryOperands(in, i + 1)

BinaryTokens(in) ==
    BinaryOperands(in, 1)
    \o <<Lexed("Semicolon", ";", None, 1), Lexed("Eof", "", None, 1)>>

\* LEFT = c ;   or   LEFT = b = c ;   followed by   print 1 ;   with LEFT
\* one of `a`, `a . x`, `1`, `( a )`
TargetInputs ==
    [family : {"target"}, left : {"variable", "property", "literal", "group"},
     chain : BOOLEAN]

TargetTokens(in) ==
    (CASE in.left = "variable" -> <<Lexed("Identifier", "a", String("a"), 1)>>
       [] in.left = "property" ->
              <<Lexed("Identifier", "a", String("a"), 1),
                Lexed("Dot", ".", None, 1),
                Lexed("Identifier", "x", String("x"), 1)>>
       [] in.left = "literal" -> <<Lexed("Number", "1", Number(1), 1)>>
       [] in.left = "group" ->
              <<Lexed("LeftParen", "(", None, 1),
                Lexed("Identifier", "a", String("a"), 1),
                Lexed("RightParen", ")", None, 1)>>)
    \o <<Lexed("Equal", "=", None, 1)>>
    \o (IF in.chain
        THEN <<Lexed("Identifier", "b", String("b"), 1),
               Lexed("Equal", "=", None, 1)>>
        ELSE <<>>)
    \o <<Lexed("Identifier", "c", String("c"), 1),
         Lexed("Semicolon", ";", None, 1)>>
    \o StatementTokens("print", 2)
    \o <<Lexed("Eof", "", None, 2)>>

\* a call `f(1, .., 1)` or a declaration `fun f(p, .., p) {}` with count
\* items in its list, taken up where the loop over the list has pushed all
\* but the last MaxArgs of them
LimitInputs ==
    [family : {"limit"}, list : {"arguments", "parameters"},
     count : ListLimit - 1 .. ListLimit + 1]

\* the vector of the items pushed so far
Pushed(in) ==
    [i \in 1 .. in.count - MaxArgs |->
        IF in.list = "arguments" THEN Literal(Number(1))
        ELSE Lexed("Identifier", "p", String("p"), 1)]

\* the tokens of the last `items` items and of what follows the list
RECURSIVE LimitTokens(_, _)
LimitTokens(in, items) ==
    IF items = 0
    THEN <<Lexed("RightParen", ")", None, 1)>>
         \o (IF in.list = "arguments" THEN <<Lexed("Semicolon", ";", None, 1)>>
             ELSE <<Lexed("LeftBrace", "{", None, 1),
                    Lexed("RightBrace", "}", None, 1)>>)
         \o <<Lexed("Eof", "", None, 1)>>
    ELSE <<IF in.list = "arguments" THEN Lexed("Number", "1", Number(1), 1)
           ELSE Lexed("Identifier", "p", String("p"), 1)>>
         \o (IF items > 1 THEN <<Lexed("Comma", ",", None, 1)>> ELSE <<>>)
         \o LimitTokens(in, items - 1)

\* the token list the parser is constructed with
Tokens(in) ==
    CASE in.family = "logic" -> LogicTokens(in)
      [] in.family = "recover" -> RecoverTokens(in)
      [] in.family = "binary" -> BinaryTokens(in)
      [] in.family = "target" -> TargetTokens(in)
      [] in.family = "limit" -> LimitTokens(in, MaxArgs)
      [] OTHER -> <<Lexed("Eof", "", None, 1)>>

\* the source the scanner is constructed with
Source(in) == IF in.family \in {"scan", "run"} THEN in.source ELSE <<>>

(***************************************************************************)
(* The pipeline: resolve every top-level statement, then, when the         *)
(* resolver reported no error, execute every top-level statement.  A       *)
(* script of the family "run" goes the way of Lox::run (src/src/main.rs):  *)
(* it is scanned, parsed and, with no resolution, interpreted.             *)
(***************************************************************************)
Outcome(kind, token, message) ==
    [kind |-> kind, token |-> token, message |-> message]

NoOutcome == Outcome("none", NoToken, Message("", <<>>))

Init ==
    /\ \/ input \in LogicalInputs
       \/ input \in StaticInputs
       \/ input \in ClosureInputs
       \/ input \in InheritInputs
       \/ input \in SuperInputs
       \/ input \in InitInputs
       \/ input \in RestoreInputs
       \/ input \in DepthInputs
       \/ input \in FieldInputs
       \/ input \in ArityInputs
       \/ input \in NoInitInputs
       \/ input \in SelfInitInputs
       \/ input \in ReturnInputs
       \/ input \in ScanInputs
       \/ input \in LogicInputs
       \/ input \in RecoverInputs
       \/ input \in RunInputs
       \/ input \in SitesInputs
       \/ input \in BalanceInputs
       \/ input \in LimitInputs
       \/ input \in TargetInputs
       \/ input \in UnresolvedInputs
       \/ input \in SetInputs
       \/ input \in RaiseInputs
       \/ input \in BinaryInputs
    /\ phase = CASE input.family \in {"scan", "run"} -> "scan"
                 [] input.family \in {"logic", "recover", "binary", "target"} -> "parse"
                 [] input.family = "limit" -> "list"
                 [] OTHER -> "resolve"
    /\ ip = 1
    /\ interpreter = Interpreter_default
    /\ resolver = Resolver_new(Interpreter_default.locals)
    /\ outcome = NoOutcome
    /\ scanner = Scanner_new(Source(input))
    /\ parser = Parser_new(Tokens(input))
    /\ parsed = IF input.family = "limit" THEN Pushed(input) ELSE <<>>

\* one iteration of the loop of Scanner::scan_tokens; a panic ends the run
ScanToken ==
    /\ phase = "scan"
    /\ ~Scanner_is_at_end(scanner)
    /\ LET sc == scan_token([scanner EXCEPT !.start = scanner.current])
       IN  /\ scanner' = sc
           /\ IF sc.panic # ""
              THEN /\ phase' = "aborted"
                   /\ outcome' = Outcome("panic", NoToken, Message(sc.panic, <<>>))
              ELSE UNCHANGED <<phase, outcome>>
    /\ UNCHANGED <<input, ip, resolver, interpreter, parser, parsed>>

\* scan_tokens after its loop: the Eof token is added, the tokens returned;
\* Lox::run constructs the parser with them
ScanEof ==
    /\ phase = "scan"
    /\ Scanner_is_at_end(scanner)
    /\ scanner' = add_token(scanner, "Eof", None)
    /\ IF input.family = "run"
       THEN /\ phase' = "parse"
            /\ parser' = Parser_new(add_token(scanner, "Eof", None).tokens)
            /\ UNCHANGED outcome
       ELSE /\ phase' = "done"
            /\ outcome' = Outcome("ok", NoToken, Message("", <<>>))
            /\ UNCHANGED parser
    /\ UNCHANGED <<input, ip, resolver, interpreter, parsed>>

\* one iteration of the loop of Parser::parse; an error ends it
ParseDeclaration ==
    /\ phase = "parse"
    /\ ~Parser_is_at_end(parser)
    /\ LET res == declaration(parser)
       IN  /\ parser' = res.st
           /\ IF res.r = "ok"
              THEN /\ parsed' = Append(parsed, res.v)
                   /\ UNCHANGED <<phase, outcome>>
              ELSE /\ phase' = "done"
                   /\ outcome' = Outcome(res.r, res.token, res.message)
                   /\ UNCHANGED parsed
    /\ UNCHANGED <<input, ip, resolver, interpreter, scanner>>

\* parse returns Ok(statements) at the Eof token; Lox::run hands them to
\* Interpreter::interpret
ParseReturn ==
    /\ phase = "parse"
    /\ Parser_is_at_end(parser)
    /\ IF input.family = "run"
       THEN /\ phase' = "interpret"
            /\ UNCHANGED outcome
       ELSE /\ phase' = "done"
            /\ outcome' = Outcome("ok", NoToken, Message("", <<>>))
    /\ UNCHANGED <<input, ip, resolver, interpreter, scanner, parser, parsed>>

\* one iteration of the loop of Resolver::resolve_stmts
ResolveStep ==
    /\ phase = "resolve"
    /\ ip <= Len(Program(input))
    /\ LET rs == resolve_stmt(resolver, Program(input)[ip])
       IN  /\ resolver' = rs
           /\ interpreter' = [interpreter EXCEPT !.locals = rs.locals]
    /\ ip' = ip + 1
    /\ UNCHANGED <<input, phase, outcome, scanner, parser, parsed>>

\* the driver after resolution: a static error ends the run, else the
\* evaluator starts at the first statement
StartInterpret ==
    /\ phase = "resolve"
    /\ ip > Len(Program(input))
    /\ IF resolver.had_error
       THEN /\ phase' = "done"
            /\ outcome' = Outcome("static", NoToken, Message("", <<>>))
            /\ UNCHANGED ip
       ELSE /\ phase' = "interpret"
            /\ ip' = 1
            /\ UNCHANGED outcome
    /\ UNCHANGED <<input, resolver, interpreter, scanner, parser, parsed>>

\* the statements handed to Interpreter::interpret: those Parser::parse
\* returned when the script is run from its source
Statements == IF input.family = "run" THEN parsed ELSE Program(input)

\* the exit status of the process: main exits with 70 on Error::Runtime and
\* with 65 on Error::Parse, returns Ok(()) otherwise; a panic exits with 101
main ==
    CASE outcome.kind = "runtime" -> 70
      [] outcome.kind = "parse" -> 65
      [] outcome.kind = "panic" -> 101
      [] OTHER -> 0

\* one iteration of the loop of Interpreter::interpret; an error ends it
InterpretStep ==
    /\ phase = "interpret"
    /\ ip <= Len(Statements)
    /\ \E now \in 0 .. MaxClock :
          LET res == execute(Statements[ip], [interpreter EXCEPT !.now = now])
          IN  /\ interpreter' = [res.st EXCEPT !.now = 0]
              /\ IF res.r = "ok"
                 THEN /\ ip' = ip + 1
                      /\ UNCHANGED <<phase, outcome>>
                 ELSE /\ phase' = IF res.r = "panic" THEN "aborted" ELSE "done"
                      /\ outcome' = Outcome(res.r, res.token, res.message)
                      /\ UNCHANGED ip
    /\ UNCHANGED <<input, resolver, scanner, parser, parsed>>

\* interpret returns Ok(()) after the last statement
FinishInterpret ==
    /\ phase = "interpret"
    /\ ip > Len(Statements)
    /\ phase' = "done"
    /\ outcome' = Outcome("ok", NoToken, Message("", <<>>))
    /\ UNCHANGED <<input, ip, resolver, interpreter, scanner, parser, parsed>>

\* the rest of the loop of finish_call over the arguments, or of function
\* over the parameters, from the vector pushed so far
ParseList ==
    /\ phase = "list"
    /\ LET res == IF input.list = "arguments" THEN ArgumentLoop(parser, parsed)
                  ELSE ParamLoop(parser, parsed)
       IN  /\ parser' = res.st
           /\ phase' = "done"
           /\ outcome' = Outcome(res.r, res.token, res.message)
           /\ parsed' = IF res.r = "ok" THEN res.v ELSE parsed
    /\ UNCHANGED <<input, ip, resolver, interpreter, scanner>>

Next ==
    \/ ScanToken \/ ScanEof
    \/ ParseDeclaration \/ ParseReturn \/ ParseList
    \/ ResolveStep \/ StartInterpret \/ InterpretStep \/ FinishInterpret

Spec == Init /\ [][Next]_vars

(***************************************************************************)
(* The claims.                                                             *)
(***************************************************************************)
Done == phase = "done"

Finished == Done /\ outcome.kind = "ok"

\* the value bound to `name` in the global environment
GlobalValue(name) == interpreter.envs[interpreter.globals].values[name]

Falsy(v) == v = Nil \/ v = Bool(FALSE)

\* the value of the left operand of the logical programs
LeftValue ==
    IF input.a.k = "Literal" THEN input.a.value
    ELSE GlobalValue(input.a.name.lexeme)

ShortCircuits ==
    \/ input.op = "Or" /\ ~Falsy(LeftValue)
    \/ input.op = "And" /\ Falsy(LeftValue)

\* C1: `a or b` yields a unchanged and does not evaluate b when a is truthy,
\* `a and b` yields a unchanged and does not evaluate b when a is nil or
\* false; otherwise b is evaluated exactly once (n counts the evaluations
\* of b) and its value is the result.
ShortCircuitLaw ==
    (input.family = "logical" /\ Done) =>
        /\ outcome.kind = "ok"
        /\ IF ShortCircuits
           THEN /\ interpreter.printed = <<LeftValue>>
                /\ GlobalValue("n") = Number(0)
           ELSE /\ interpreter.printed = <<input.b>>
                /\ GlobalValue("n") = Number(1)

\* `0 or b()` has run: 0 is truthy, so b was not called and 0 was printed
ShortCircuitWitness ==
    /\ input.family = "logical" /\ Done
    /\ input.op = "Or" /\ input.a = Literal(Number(0))
    /\ input.b = String("s")
    /\ interpreter.printed = <<Number(0)>>
    /\ GlobalValue("n") = Number(0)

Max(S) == CHOOSE x \in S : \A y \in S : y <= x

Min(S) == CHOOSE x \in S : \A y \in S : x <= y

UndefinedProperty(name, line) ==
    Outcome("runtime", Identifier(name, line),
            Message("Undefined property '{}'.", <<name>>))

\* C4: `o.m` on an instance without a field m yields the method m of the
\* nearest class of the chain (the instance's class, its superclass, ...)
\* that declares m, and fails with "Undefined property 'm'." only when no
\* class of the chain declares m.
InheritanceLookup ==
    (input.family = "inherit" /\ Done) =>
        IF input.decl = {}
        THEN /\ outcome = UndefinedProperty("m", input.chain + 3)
             /\ interpreter.printed = <<>>
        ELSE /\ outcome.kind = "ok"
             /\ interpreter.printed = <<Number(Max(input.decl))>>

\* the depth recorded for the token of a reference site
RecordedDepth(site) == interpreter.locals[site.name]

\* the scope of the site's stack at a depth, 0 the innermost
ScopeAt(site, depth) == site.scopes[Len(site.scopes) - depth]

SuperSites == {i \in DOMAIN resolver.sites : resolver.sites[i].name.lexeme = "super"}

\* C5: `super.m` in a method of class C < S yields the method m looked up
\* from S upward, never from the instance's class, bound to the `this` of
\* the running method; the depth D recorded for `super` names the scope
\* that holds `super`, and D - 1 the scope that holds `this`.
SuperLookup ==
    (input.family = "super" /\ Done) =>
        /\ \A i \in SuperSites :
              /\ Has(interpreter.locals, resolver.sites[i].name)
              /\ RecordedDepth(resolver.sites[i]) \in
                     1 .. Len(resolver.sites[i].scopes) - 1
              /\ Has(ScopeAt(resolver.sites[i], RecordedDepth(resolver.sites[i])),
                     "super")
              /\ Has(ScopeAt(resolver.sites[i], RecordedDepth(resolver.sites[i]) - 1),
                     "this")
        /\ IF input.a \/ input.b
           THEN /\ outcome.kind = "ok"
                /\ interpreter.printed = <<Number(IF input.b THEN 1 ELSE 0)>>
                /\ GlobalValue("r") = GlobalValue("o")
           ELSE /\ outcome = UndefinedProperty("m", 3)
                /\ interpreter.printed = <<>>

\* C6: every successful call of a class yields the freshly allocated
\* instance of that class, with init absent, completing, or left by a bare
\* `return;`, and a direct call of the bound init yields that instance too.
InitializerIdentity ==
    (input.family = "init" /\ Done) =>
        /\ outcome.kind = "ok"
        /\ Len(interpreter.instances) = 2
        /\ GlobalValue("o1") = InstanceObject(1)
        /\ GlobalValue("o2") = InstanceObject(2)
        /\ \A i \in 1 .. 2 : ClassObject(interpreter.instances[i].class) = GlobalValue("P")
        /\ input.kind # "absent" =>
              /\ GlobalValue("q") = InstanceObject(1)
              /\ interpreter.printed = <<Number(1), Number(1), Number(1)>>

\* init left by `return;` has run three times, twice by P(..) and once by
\* o1.init(..), with two parameters
InitializerIdentityWitness ==
    /\ input.family = "init" /\ Done
    /\ input.kind = "early" /\ input.params = 2
    /\ GlobalValue("q") = GlobalValue("o1")
    /\ GlobalValue("o2") # GlobalValue("o1")
    /\ interpreter.printed = <<Number(1), Number(1), Number(1)>>

\* C7: when a block, a call of a user function or a class declaration has
\* finished (normally, by a Return or by a runtime error) the current
\* environment is the one from before it began, so between and after the
\* top-level statements it is the global environment.
EnvironmentRestored ==
    /\ \A i \in DOMAIN interpreter.frames :
          interpreter.frames[i].after = interpreter.frames[i].before
    /\ phase \in {"interpret", "done"} =>
          interpreter.environment = interpreter.globals

FramesLeftBy(kind, r) ==
    {i \in DOMAIN interpreter.frames :
        interpreter.frames[i].kind = kind /\ interpreter.frames[i].r = r}

\* a runtime error has left the two blocks of a method body, the call and
\* the two blocks around it, after a class with a superclass was declared
EnvironmentRestoredWitness ==
    /\ input.family = "restore" /\ Done
    /\ input.exit = "error" /\ input.where = "method" /\ input.super = "class"
    /\ outcome.kind = "runtime"
    /\ Cardinality(FramesLeftBy("block", "runtime")) = 5
    /\ Cardinality(FramesLeftBy("class", "ok")) = 2
    /\ interpreter.environment = interpreter.globals

\* the depths (0 the innermost) of the scopes of a site that hold its name
Matches(site) ==
    {d \in 0 .. Len(site.scopes) - 1 : Has(ScopeAt(site, d), site.name.lexeme)}

\* C8: every call of resolve_local records for its token the depth of the
\* innermost scope that holds the name, also when outer scopes hold it too,
\* and records nothing when no scope holds it.
InnermostDepth ==
    \A i \in DOMAIN resolver.sites :
        IF Matches(resolver.sites[i]) = {}
        THEN resolver.sites[i].after = resolver.sites[i].before
        ELSE resolver.sites[i].after =
                 Put(resolver.sites[i].before, resolver.sites[i].name,
                     Min(Matches(resolver.sites[i])))

\* C9: after `o.f = v` a later read of f through any reference to the
\* instance yields v, whatever the lines of the write and of the read.
FieldRoundTrip ==
    (input.family = "field" /\ Done) =>
        /\ outcome.kind = "ok"
        /\ interpreter.printed = <<input.v>>

\* the parameter count the callee of the arity programs declares
Declared == IF input.callee = "native" THEN 0 ELSE input.params

\* C10: a call of a user function, a native function or a class with init
\* whose argument count differs from the declared parameter count fails at
\* the closing parenthesis with "Expected N arguments but got M." and runs
\* nothing of the body; with the same count the call proceeds.
ArityCheck ==
    (input.family = "arity" /\ Done) =>
        IF input.args # Declared
        THEN /\ outcome = Outcome("runtime", Token("RightParen", ")", 2),
                                  ArityMessage(Declared, input.args))
             /\ interpreter.printed = <<>>
        ELSE /\ outcome.kind = "ok"
             /\ interpreter.printed =
                    IF input.callee = "native" THEN <<Number(8)>>
                    ELSE <<Number(7), Number(8)>>

\* a class whose init declares one parameter was called with two arguments
ArityCheckWitness ==
    /\ input.family = "arity" /\ Done
    /\ input.callee = "class" /\ input.params = 1 /\ input.args = 2
    /\ outcome.kind = "runtime"
    /\ outcome.message = ArityMessage(1, 2)
    /\ interpreter.printed = <<>>

\* C11: a call with one or more arguments of a class that neither declares
\* nor inherits init fails with the arity error "Expected 0 arguments but
\* got N." at the closing parenthesis; only the call without arguments
\* yields an instance.
NoInitArity ==
    (input.family = "noinit" /\ Done) =>
        IF input.args > 0
        THEN outcome = Outcome("runtime", Token("RightParen", ")", 2),
                               ArityMessage(0, input.args))
        ELSE /\ outcome.kind = "ok"
             /\ GlobalValue("o").t = "instance"

\* the resolver has visited every top-level statement of the program
Resolved ==
    \/ phase = "resolve" /\ ip > Len(Program(input))
    \/ phase \in {"interpret", "done", "aborted"}

\* the diagnostic of the self-initializer rule at the read of x
SelfInitError ==
    [token |-> Identifier("x", 1),
     message |-> "Cannot read local variable in its own initializer."]

\* C12: `var x = x;` in a block or a function body with no enclosing local
\* x reports "Cannot read local variable in its own initializer." and sets
\* had_error; at top level it reports nothing and records no depth.
SelfInitializerRule ==
    (input.family = "selfinit" /\ ~input.outer /\ Resolved) =>
        IF input.where = "top"
        THEN /\ resolver.errors = <<>>
             /\ ~resolver.had_error
             /\ resolver.locals = EmptyMap
        ELSE /\ resolver.errors = <<SelfInitError>>
             /\ resolver.had_error

\* `{ var x = x; }` was resolved below a global x: the error is reported and
\* the run stops before the evaluator
SelfInitializerRuleWitness ==
    /\ input.family = "selfinit" /\ ~input.outer /\ input.global
    /\ input.where = "block"
    /\ phase = "done" /\ outcome.kind = "static"
    /\ resolver.errors = <<SelfInitError>>

\* C13: `var x = x;` in an inner scope whose enclosing local scope defines x
\* reports no error, and the read of x in the initializer is recorded with
\* the depth of the enclosing scope (1: the scope of the inner block or of
\* the function body is 0).
ShadowingSelfReference ==
    (input.family = "selfinit" /\ input.outer /\ Resolved) =>
        /\ resolver.errors = <<>>
        /\ ~resolver.had_error
        /\ Has(resolver.locals, Identifier("x", 1))
        /\ resolver.locals[Identifier("x", 1)] = 1

\* the diagnostics the return rules give for the programs of the family
ReturnErrors ==
    (IF input.where = "top"
     THEN <<[token |-> Token("Return", "return", 2),
             message |-> "Cannot return from top-level code."]>>
     ELSE <<>>)
    \o (IF input.where \in {"init", "after"} /\ input.value
        THEN <<[token |-> Token("Return", "return", 2),
                message |-> "Cannot return value from initializer."]>>
        ELSE <<>>)

\* C14: a return at top level is an error; `return <value>;` directly in
\* init is an error and a bare `return;` there is not; `return <value>;` in
\* a function nested in init is accepted, and after that function the rules
\* of init apply again, the function kind being restored on exit.
ReturnRules ==
    (input.family = "return" /\ Resolved) =>
        /\ resolver.errors = ReturnErrors
        /\ resolver.had_error = (ReturnErrors # <<>>)
        /\ resolver.current_function = "None"

\* `return 1;` after a nested function in init was reported
ReturnRulesWitness ==
    /\ input.family = "return" /\ Resolved
    /\ input.where = "after" /\ input.value
    /\ Len(resolver.errors) = 1
    /\ resolver.errors[1].message = "Cannot return value from initializer."

\* the operand of the logical expressions at position i, as primary builds it
LogicOperand(i) ==
    [k |-> "Variable",
     name |-> Lexed("Identifier", OperandNames[i], String(OperandNames[i]), 1)]

LogicOperator(type) == Lexed(type, IF type = "And" THEN "and" ELSE "or", None, 1)

LogicNode(left, type, right) ==
    [k |-> "Logical", left |-> left, operator |-> LogicOperator(type),
     right |-> right]

\* the tree of `a OP b OP c ..` when `and` binds tighter than `or` and both
\* associate to the left: ors is the tree of the operands before the last
\* `or` (None when there was no `or` yet), ands the `and` chain after it
RECURSIVE LogicTree(_, _, _, _)
LogicTree(ops, i, ors, ands) ==
    IF i > Len(ops)
    THEN IF ors.k = "None" THEN ands ELSE LogicNode(ors, "Or", ands)
    ELSE IF ops[i] = "And"
    THEN LogicTree(ops, i + 1, ors, LogicNode(ands, "And", LogicOperand(i + 1)))
    ELSE LogicTree(ops, i + 1,
                   IF ors.k = "None" THEN ands ELSE LogicNode(ors, "Or", ands),
                   LogicOperand(i + 1))

\* C15: `a and b` parses to a Logical node whose operator is the AND token,
\* `and` binds tighter than `or` (`a or b and c` is `a or (b and c)`), and
\* each level associates to the left: every expression statement built from
\* `and` and `or` parses without an error to that tree.
AndProduction ==
    (input.family = "logic" /\ Done) =>
        /\ outcome.kind = "ok"
        /\ parsed = <<Expression(LogicTree(input.ops, 1, None, LogicOperand(1)))>>

\* the number of elements of a sequence that are in a set
RECURSIVE CountIn(_, _, _)
CountIn(seq, S, i) ==
    IF i > Len(seq) THEN 0
    ELSE (IF seq[i] \in S THEN 1 ELSE 0) + CountIn(seq, S, i + 1)

\* C16: after a declaration fails to parse the parser synchronizes and goes
\* on with the remaining statements: parse ends with the cursor on the Eof
\* token, never past it, and every statement `var ;` of a token list whose
\* other statements are well formed has its error reported.
ParseRecovery ==
    (input.family = "recover" /\ Done) =>
        /\ parser.current + 1 <= Len(parser.tokens)
        /\ Parser_is_at_end(parser)
        /\ ("nosemi" \notin {input.kinds[i] : i \in DOMAIN input.kinds}) =>
               Len(parser.errors) = CountIn(input.kinds, {"novar"}, 1)

\* the token the claim gives for a relational character at the head of a
\* source: two characters when `=` follows, one otherwise
RelationalToken(source) ==
    IF Len(source) >= 2 /\ source[2] = "="
    THEN [type |-> CASE source[1] = "!" -> "BangEqual"
                     [] source[1] = "=" -> "EqualEqual"
                     [] source[1] = "<" -> "LessEqual"
                     [] source[1] = ">" -> "GreaterEqual",
          lexeme |-> SubSeq(source, 1, 2), literal |-> None, line |-> 1]
    ELSE [type |-> CASE source[1] = "!" -> "Bang"
                     [] source[1] = "=" -> "Equal"
                     [] source[1] = "<" -> "Less"
                     [] source[1] = ">" -> "Greater",
          lexeme |-> SubSeq(source, 1, 1), literal |-> None, line |-> 1]

\* C17: a source that begins with `!`, `=`, `<` or `>` yields as its first
\* token the two-character token over both characters when `=` follows, and
\* the one-character token over one character when it does not.
RelationalOperators ==
    (/\ input.family = "scan"
     /\ input.source # <<>>
     /\ input.source[1] \in {"!", "=", "<", ">"}
     /\ scanner.tokens # <<>>) =>
        scanner.tokens[1] = RelationalToken(input.source)

\* the scan has ended, by returning the tokens or by a panic
Scanned == phase \in {"done", "aborted"}

\* the source is a quote, characters other than a quote, and a quote
StringSource(source) ==
    /\ Len(source) >= 2
    /\ source[1] = Quote
    /\ source[Len(source)] = Quote
    /\ \A i \in 2 .. Len(source) - 1 : source[i] # Quote

\* C18: a source made of a quote, characters other than a quote and a
\* closing quote yields exactly one String token, whose literal is the
\* characters between the quotes, and the line counter has gone up by one
\* for every newline among them.
StringLiteral ==
    (input.family = "scan" /\ StringSource(input.source) /\ Scanned) =>
        /\ phase = "done"
        /\ Len(scanner.tokens) = 2
        /\ scanner.tokens[1].type = "String"
        /\ scanner.tokens[1].lexeme = input.source
        /\ scanner.tokens[1].literal =
               String(SubSeq(input.source, 2, Len(input.source) - 1))
        /\ scanner.line = 1 + CountIn(input.source, {Newline}, 1)

\* the messages of the diagnostics the scanner reported
ScannerMessages == [i \in DOMAIN scanner.errors |-> scanner.errors[i].message]

\* C19: scan_tokens never aborts; it returns a token list whose last
\* element is the only Eof token; outside strings and comments every
\* unknown character is reported as "Unexpected character." and scanning
\* goes on after it; a source that ends inside a string is reported as
\* "Unterminated string.".
LexerTotality ==
    (input.family = "scan") =>
        /\ phase # "aborted"
        /\ Done =>
            /\ scanner.tokens # <<>>
            /\ \A i \in DOMAIN scanner.tokens :
                   (scanner.tokens[i].type = "Eof") = (i = Len(scanner.tokens))
            /\ (\A i \in DOMAIN input.source : input.source[i] \notin {Quote, "/"}) =>
                   CountIn(ScannerMessages, {"Unexpected character."}, 1)
                       = CountIn(input.source, {"@"}, 1)
            /\ (/\ CountIn(input.source, {Quote}, 1) = 1
                /\ CountIn(input.source, {"/"}, 1) = 0) =>
                   CountIn(ScannerMessages, {"Unterminated string."}, 1) = 1

\* the source is one run of letters, digits and underscores that begins
\* with a letter or an underscore
IdentifierSource(source) ==
    /\ source # <<>>
    /\ ~is_ascii_digit(source[1])
    /\ \A i \in DOMAIN source :
           is_ascii_alphanumeric(source[i]) \/ source[i] = "_"

\* C20: a run of letters, digits and underscores that begins with a letter
\* or an underscore is one token over the whole run: the keyword token when
\* the run is a reserved word, an Identifier token otherwise.
IdentifierLongestMatch ==
    (input.family = "scan" /\ IdentifierSource(input.source) /\ Scanned) =>
        /\ phase = "done"
        /\ Len(scanner.tokens) = 2
        /\ scanner.tokens[1].lexeme = input.source
        /\ scanner.tokens[1].type =
               IF input.source \in DOMAIN scanner.keywords
               THEN scanner.keywords[input.source]
               ELSE "Identifier"

\* the scanner or the parser has produced an error for the script: a
\* diagnostic of either, or the missing-expression error of primary
CompileError ==
    \/ scanner.errors # <<>>
    \/ parser.errors # <<>>
    \/ outcome.message.text = "Expected expression"

\* C21: a script whose lexing or parsing produces an error exits with 65
\* and none of its statements is executed; an error-free script exits with
\* 70 when its evaluation raises a runtime error and with 0 otherwise.
RunExitCodes ==
    (input.family = "run") =>
        /\ (phase = "interpret") => ~CompileError
        /\ Done =>
               main = CASE CompileError -> 65
                        [] outcome.kind = "runtime" -> 70
                        [] OTHER -> 0

\* the binding strength of a binary operator: factor, term, comparison,
\* equality from the tightest on
BinaryLevel(type) ==
    CASE type \in {"Star", "Slash"} -> 4
      [] type \in {"Minus", "Plus"} -> 3
      [] type = "Less" -> 2
      [] type = "EqualEqual" -> 1

\* the operator at which the operands lo .. hi split: the last of the
\* loosest operators between them that is not inside the parentheses
BinarySplit(in, lo, hi) ==
    CHOOSE j \in (lo .. hi - 1) \ {in.group} :
        \A i \in (lo .. hi - 1) \ {in.group} :
            \/ BinaryLevel(in.ops[j]) < BinaryLevel(in.ops[i])
            \/ BinaryLevel(in.ops[j]) = BinaryLevel(in.ops[i]) /\ j >= i

BinaryNode(left, type, right) ==
    [k |-> "Binary", left |-> left, operator |-> BinaryOperator(type),
     right |-> right]

\* the tree of the operands lo .. hi when tighter operators bind first,
\* equal ones associate to the left and the parentheses make one operand
RECURSIVE BinaryTree(_, _, _)
BinaryTree(in, lo, hi) ==
    IF lo = hi THEN LogicOperand(lo)
    ELSE IF in.group = lo /\ hi = lo + 1
    THEN [k |-> "Grouping",
          expr |-> BinaryNode(LogicOperand(lo), in.ops[lo], LogicOperand(hi))]
    ELSE BinaryNode(BinaryTree(in, lo, BinarySplit(in, lo, hi)),
                    in.ops[BinarySplit(in, lo, hi)],
                    BinaryTree(in, BinarySplit(in, lo, hi) + 1, hi))

\* C22: `*` and `/` bind tighter than `+` and `-`, these tighter than
\* comparison, comparison tighter than equality; operators of one level
\* associate to the left; a parenthesized group is one operand.  Every
\* expression statement of binary operators parses, with no error, to the
\* tree these rules give.
BinaryPrecedence ==
    (input.family = "binary" /\ Done) =>
        /\ outcome.kind = "ok"
        /\ parser.errors = <<>>
        /\ parsed = <<Expression(BinaryTree(input, 1, Len(input.ops) + 1))>>

\* `a - b * c` has been parsed: the product is the right operand of the
\* difference
BinaryPrecedenceWitness ==
    /\ input.family = "binary"
    /\ input.ops = <<"Minus", "Star">>
    /\ input.group = 0
    /\ Done
    /\ parsed # <<>>
    /\ parsed[1].expr.operator.type = "Minus"
    /\ parsed[1].expr.right.k = "Binary"

\* the run is over: interpret returned or the process aborted
Ended == phase \in {"done", "aborted"}

\* the operand or condition E of the statement on line 2 raises
Raises == input.family = "raise" /\ input.fault # "none"

UndefinedU == Message("Undefined variable '{}'.", <<"u">>)

\* C23: a runtime error raised by the left or the right operand of a binary
\* expression is returned by the binary expression: the run ends with that
\* runtime error and the evaluator does not abort.
BinaryOperandError ==
    (Raises /\ input.site \in {"left", "right"} /\ Ended) =>
        /\ phase = "done"
        /\ outcome.kind = "runtime"
        /\ outcome.message = UndefinedU

\* C24: a runtime error raised by the condition of an `if` or a `while` is
\* returned by the statement: no branch and no body is executed, and no
\* later statement of the script runs.
ConditionError ==
    (Raises /\ input.site \in {"if", "else", "while"}) =>
        /\ interpreter.printed = <<>>
        /\ Ended => outcome.kind = "runtime" /\ outcome.message = UndefinedU

\* the field `name` of the instance created first (a) or second (b) holds v
FieldHolds(instance, name, v) ==
    /\ Has(interpreter.instances[instance].fields, Identifier(name, 1))
    /\ interpreter.instances[instance].fields[Identifier(name, 1)] = v

\* C25: `obj.f = v` on an instance evaluates obj, then v, writes the field
\* and yields v: `print (a.x = v);` prints v and `a.x = b.y = v` stores v in
\* both fields; on an object that is not an instance it fails with "Only
\* instances have fields." without evaluating v.
SetYieldsValue ==
    (input.family = "set" /\ Done) =>
        IF input.target = "a"
        THEN /\ outcome.kind = "ok"
             /\ interpreter.printed = <<input.v>>
             /\ FieldHolds(1, "x", input.v)
             /\ input.chain => FieldHolds(2, "y", input.v)
        ELSE /\ outcome.kind = "runtime"
             /\ outcome.message = Message("Only instances have fields.", <<>>)
             /\ interpreter.printed = <<>>
             /\ interpreter.instances[2].fields = EmptyMap

\* every binding of `a` outside the global environment holds the 3 it was
\* declared with
LocalsUntouched ==
    \A e \in 1 .. Len(interpreter.envs) :
        (e # interpreter.globals /\ "a" \in DOMAIN interpreter.envs[e].values) =>
            interpreter.envs[e].values["a"] = Number(3)

\* C26: an assignment to a name without a recorded depth writes the global
\* binding and leaves every other environment unchanged, even when an
\* environment of the current chain holds a local of that name; when the
\* global is undefined it fails with "Undefined variable 'NAME'." and
\* changes no environment.
UnresolvedAssignGlobal ==
    (input.family = "unresolved" /\ Done) =>
        /\ ~Has(interpreter.locals, Identifier("a", 2))
        /\ LocalsUntouched
        /\ IF input.global
           THEN outcome.kind = "ok" /\ GlobalValue("a") = Number(2)
           ELSE /\ outcome.kind = "runtime"
                /\ outcome.message = Message("Undefined variable '{}'.", <<"a">>)

\* the value assigned in the target statements: `c`, or `b = c` as the
\* assignment of c to b
TargetValue ==
    IF input.chain
    THEN [k |-> "Assign", name |-> LogicOperand(2).name, value |-> LogicOperand(3)]
    ELSE LogicOperand(3)

\* C27: after an `or`-level expression followed by `=`, a Variable left
\* side gives an Assign node and a property access gives a Set node, both
\* with the right-associated value; any other left side has "Invalid
\* assignment target." reported at the `=`, and the statement is still
\* returned and the statements after it are parsed.
AssignmentTargets ==
    (input.family = "target" /\ Done) =>
        /\ Len(parsed) = 2
        /\ parsed[2] = PrintStmt(Literal(Number(1)))
        /\ parsed[1].k = "Expression"
        /\ CASE input.left = "variable" ->
                    /\ parser.errors = <<>>
                    /\ parsed[1].expr =
                           [k |-> "Assign", name |-> LogicOperand(1).name,
                            value |-> TargetValue]
             [] input.left = "property" ->
                    /\ parser.errors = <<>>
                    /\ parsed[1].expr =
                           [k |-> "Set", object |-> LogicOperand(1),
                            name |-> Lexed("Identifier", "x", String("x"), 1),
                            value |-> TargetValue]
             [] OTHER ->
                    /\ Len(parser.errors) = 1
                    /\ parser.errors[1].token.type = "Equal"
                    /\ parser.errors[1].message =
                           Message("Invalid assignment target.", <<>>)

\* the error of a list that is too long
TooMany ==
    Message(IF input.list = "arguments" THEN "Can't have more than 255 arguments."
            ELSE "Cannot have more than 255 parameters.", <<>>)

\* C28: a call with at most 255 arguments parses with no error reported;
\* with more than 255 the error "Can't have more than 255 arguments." is
\* reported, parsing goes on and all arguments are kept.  The parameters of
\* a function have the same boundary.
ListLimits ==
    (input.family = "limit" /\ Done) =>
        /\ outcome.kind = "ok"
        /\ Len(parsed) = input.count
        /\ Parser_peek(parser).type = "RightParen"
        /\ IF input.count <= ListLimit THEN parser.errors = <<>>
           ELSE /\ parser.errors # <<>>
                /\ \A i \in 1 .. Len(parser.errors) :
                       parser.errors[i].message = TooMany

\* the statement on line 2 of the balance programs breaks a static rule
Diagnosed ==
    \/ input.stmt \in {"itself", "init", "params", "selfinit"}
    \/ input.stmt = "return" /\ input.nest # "function"

\* the reference `z` after the statement on line 2 was the last one
\* resolved, against the scope stack of the declaration of z
LastSite ==
    /\ resolver.sites # <<>>
    /\ resolver.sites[Len(resolver.sites)].name = Identifier("z", 3)
    /\ IF input.nest = "top"
       THEN resolver.sites[Len(resolver.sites)].scopes = <<>>
       ELSE /\ Len(resolver.sites[Len(resolver.sites)].scopes) = 1
            /\ Has(resolver.sites[Len(resolver.sites)].scopes[1], "z")
            /\ Has(resolver.locals, Identifier("z", 3))
            /\ resolver.locals[Identifier("z", 3)] = 0

\* C29: after every top-level statement the resolver's scope stack is empty
\* and current_function and current_class are None again, also when the
\* statement raised a diagnostic; every scope opened inside a statement,
\* the `super` scope of a subclass included, is closed when the statement
\* has been resolved, so the reference after it sees the stack of before;
\* a diagnostic sets had_error and resolution goes on.
ResolverBalance ==
    (input.family = "balance") =>
        /\ resolver.scopes = <<>>
        /\ resolver.current_function = "None"
        /\ resolver.current_class = "None"
        /\ (phase # "resolve" \/ ip > Len(Program(input))) =>
               /\ resolver.had_error = Diagnosed
               /\ LastSite

\* a subclass whose init returns a value has been resolved inside a block:
\* the diagnostic is recorded and the statements after it were resolved
ResolverBalanceWitness ==
    /\ input.family = "balance"
    /\ input.stmt = "init"
    /\ input.nest = "block"
    /\ Done
    /\ outcome.kind = "static"
    /\ Len(resolver.errors) = 1
    /\ LastSite

\* the depth recorded for the reference to `a` on the given line
SiteDepth(line) ==
    IF Has(interpreter.locals, Identifier("a", line))
    THEN interpreter.locals[Identifier("a", line)]
    ELSE -1

\* C30: resolving one reference never changes the depth recorded for
\* another reference site, also when both are on one source line: once the
\* block is resolved the reference of the outer block has depth 0 and the
\* one of the inner block depth 1, and each read finds `a` that many
\* environments up, so both print 1.
SiteIndependence ==
    (input.family = "sites") =>
        /\ (phase # "resolve" \/ ip > Len(Program(input))) =>
               /\ SiteDepth(input.outer) = 0
               /\ SiteDepth(input.inner) = 1
        /\ phase # "aborted"
        /\ Done =>
               /\ outcome.kind = "ok"
               /\ interpreter.printed = <<Number(1), Number(1)>>

=============================================================================
